---- MODULE Spec2Model ----
(***************************************************************************)
(* Serial protocol engine of the sensor-hub console (src/main.py,          *)
(* src/firmware_update.py): the firmware transfer workers, the register    *)
(* poller, link discovery and the GUI operations that own the serial port. *)
(***************************************************************************)
EXTENDS Integers, Sequences, FiniteSets, TLC

\* ------------------------------------------------------------------------
\* Program constants
\* ------------------------------------------------------------------------
FUNC_CODE_FIRMWARE == 42
FUNC_CODE_START == 43
BOOTLOADER_ID == 1
MAX_PACKET_SIZE == 91
HEADER_SIZE == 5
CRC_SIZE == 2
MAX_PAYLOAD_SIZE == MAX_PACKET_SIZE - HEADER_SIZE - CRC_SIZE
\* A retry budget of one attempt more.
MAX_RETRIES_plus_one == 3 + 1

MAX_RETRIES == 3
DEFAULT_BAUDRATE == 56000
DEFAULT_BYTESIZE == 8
DEFAULT_PARITY == "N"
DEFAULT_STOPBITS == 1

\* The fixed update configuration (baudrate, bytesize, parity, stopbits).
DEFAULT_CFG == <<DEFAULT_BAUDRATE, DEFAULT_BYTESIZE, DEFAULT_PARITY, DEFAULT_STOPBITS>>

\* ------------------------------------------------------------------------
\* Bounds of the model
\* ------------------------------------------------------------------------
\* Largest number of chunks of an image.
MaxChunks == 2

\* Worker objects (with their threads) that exist at the same time.
MaxWorkers == 2

\* serial.Serial objects of the GUI that exist at the same time.
MaxHandles == 2

\* Queued signals, and pending timers, the GUI thread has not handled yet.
MaxQueue == 1

\* Operations the operator starts (buttons pressed) in one session.
MaxClicks == 3

\* Serial-setting registers changed at once on the settings page.
MaxSettingWrites == 1

\* Image lengths: empty, one byte, k full chunks for every k below MaxChunks,
\* and MaxChunks chunks the last of which holds a single byte.
ImageLens ==
  {0, 1} \cup {k * MAX_PAYLOAD_SIZE : k \in 1..(MaxChunks - 1)}
         \cup {(MaxChunks - 1) * MAX_PAYLOAD_SIZE + 1}

\* The bytes of the image file of length L.
ImageOf(L) == [k \in 1..L |-> (k * 7 + 3) % 251]

\* Lengths a serial read(8) of an acknowledgement returns.
RespLens == {3, 4}

\* Link configurations the port may have before a transfer.
PortCfgs == { <<9600, 7, "E", 2>>, DEFAULT_CFG }

\* Slave ids configured in the GUI.
SlaveIds == {1, 5}

Kinds == {"main", "boot", "lib"}

VARIABLES
  fw_kind,        \* which worker runs: FirmwareUpdateWorker of main.py ("main"),
                  \* BootloaderUpdateWorker ("boot"), send_firmware ("lib")
  skip_start,     \* send_firmware's skip_start argument
  slave_id,       \* the worker's slave_id
  fw_file,        \* content of the file `filename`, or "unreadable"
  fw_pc,          \* position of the worker's run
  fw_running,     \* self._running
  firmware_data,  \* bytes read from the file
  total_packets,
  fw_i,           \* loop variable i of the chunk loop
  fw_attempt,     \* attempts of the current chunk already failed
  first_ack,
  orig_cfg,       \* <<>> until captured
  port_cfg,       \* (baudrate, bytesize, parity, stopbits) of the port object
  pre_cfg,        \* port_cfg when the run started
  ser_open,       \* the worker's own port handle or client is open
  fw_log,         \* port operations of the run, in order
  fw_events,      \* signals emitted by the run, in order
  stop_idx        \* -1, or the chunk index in flight when stop() was called

fw_vars == <<fw_kind, skip_start, slave_id, fw_file, fw_pc, fw_running,
             firmware_data, total_packets, fw_i, fw_attempt, first_ack,
             orig_cfg, port_cfg, pre_cfg, ser_open, fw_log, fw_events, stop_idx>>

\* The GUI (UMVH) and the worker objects it starts, seen as owners of the link.
VARIABLES
  selected_port,    \* self.selected_port is set
  serial_port,      \* self.serial_port: 0 (None) or a handle
  h_open,           \* handle -> it is open
  workers,          \* worker object -> [type, st, running, h]
  worker,           \* self.worker (AutoConnectWorker): 0, DEAD or a worker object
  poller,           \* self.poller
  updater,          \* self.updater
  bl_updater,       \* self.bl_updater
  calibration_port, \* self._calibration_port is set
  gui_handler,      \* the handler the GUI thread executes ("": the event loop)
  gui_todo,         \* what is left of that handler
  gui_queue,        \* queued signals the GUI thread has not handled yet
  timers,           \* QTimer.singleShot callbacks not fired yet
  clicks            \* operations the operator has started

gui_vars == <<selected_port, serial_port, h_open, workers, worker, poller, updater,
              bl_updater, calibration_port, gui_handler, gui_todo, gui_queue, timers, clicks>>

\* One run of a RegisterPoller, followed call by call.
VARIABLES
  rp_slave_id,     \* self.slave_id
  rp_pc,           \* position of the poller's run
  rp_call,         \* the _read_registers call in progress: "sensor" or "status"
  rp_running,      \* self._running
  fail_count,      \* self._fail_count
  sensor_regs,     \* run's local sensor_regs
  resp,            \* _read_registers' local resp: the bytes the last read returned
  rp_log,          \* every _read_registers call so far: what it asked, what it returned
  rp_events,       \* signals emitted so far
  data_ready_args, \* the arguments of the last data_ready.emit
  rp_stopped       \* stop() was called

rp_vars == <<rp_slave_id, rp_pc, rp_call, rp_running, fail_count, sensor_regs, resp,
             rp_log, rp_events, data_ready_args, rp_stopped>>

\* One run of an AutoConnectWorker, followed byte by byte.
VARIABLES
  ac_pc,       \* position of the worker's run
  ac_running,  \* self._running
  ac_open,     \* ser is open
  rx_buf,      \* bytes the device has sent and no read has returned yet
  rx_stream,   \* every byte the reads have returned so far, in order
  ac_data,     \* run's local data: the bytes the last read returned
  ac_beacons,  \* AUTO_CONNECT_CMD bytes written so far
  ac_events,   \* signals emitted so far
  dev_sent     \* <<stray bytes, frames>> the device has sent so far

ac_vars == <<ac_pc, ac_running, ac_open, rx_buf, rx_stream, ac_data, ac_beacons,
             ac_events, dev_sent>>

\* One call of a pure helper of main.py: its arguments and what it returned.
VARIABLES
  pf_fn,    \* the helper called
  pf_in,    \* its arguments
  pf_out    \* <<its result>> once it has returned, <<>> before

pf_vars == <<pf_fn, pf_in, pf_out>>

\* One call of _read_registers, _read_register or _write_register,
\* followed byte by byte.
VARIABLES
  ch_fn,     \* the method called
  ch_args,   \* slave id and the call's arguments
  ch_pc,     \* "call" | "read" | "done"
  ch_port,   \* self.serial_port: "none" | "open" | "closed"
  ch_tx,     \* the frames passed to serial_port.write, in order
  ch_reads,  \* the number of serial_port.read calls
  ch_resp,   \* what the read returned
  ch_out     \* <<what the call returned>>, <<>> before
ch_vars == <<ch_fn, ch_args, ch_pc, ch_port, ch_tx, ch_reads, ch_resp, ch_out>>

\* The calibration pages of UMVH, followed handler by handler.
VARIABLES
  cal_kind,              \* self._current_calibration: "" (None), "2pt", "4pt", "clear"
  cal_page,              \* the current page of stackedWidget_4
  cal_port,              \* self._calibration_port, 0 for None
  cal_sensor,            \* self._calibration_sensor, NONE for None
  two_point_data,        \* self._two_point_data
  four_point_data,       \* self._four_point_data
  polled,                \* regs of the last data_ready, in device order
  latest_sensor_values,  \* self._latest_sensor_values
  spin_live,             \* the value of spinBox_11 and spinBox_12
  cal_link,              \* self.serial_port is "open" or "closed"
  cal_log,               \* register accesses since the calibration was started
  cal_last,              \* the last handler, how it ended, what it decided on
  cal_clicks             \* buttons pressed so far
cal_vars == <<cal_kind, cal_page, cal_port, cal_sensor, two_point_data, four_point_data,
              polled, latest_sensor_values, spin_live, cal_link, cal_log, cal_last,
              cal_clicks>>

\* The calls followed outside the worker runs.
ext_vars == <<pf_vars, ch_vars, cal_vars>>

\* The single runs followed in detail; the GUI model leaves them alone.
run_vars == <<fw_vars, rp_vars, ac_vars, ext_vars>>

vars == <<fw_vars, gui_vars, rp_vars, ac_vars, ext_vars>>

\* ------------------------------------------------------------------------
\* Pure helpers
\* ------------------------------------------------------------------------
Min(a, b) == IF a < b THEN a ELSE b

\* The chunk count rounded down instead of up.
TotalPackets_floor(len) == len \div MAX_PAYLOAD_SIZE

\* The chunk count with one chunk for an empty image.
TotalPackets_floor_plus_one(len) == len \div MAX_PAYLOAD_SIZE + 1

\* math.ceil(len(firmware_data) / MAX_PAYLOAD_SIZE)
TotalPackets(len) == (len + MAX_PAYLOAD_SIZE - 1) \div MAX_PAYLOAD_SIZE

\* firmware_data[i * MAX_PAYLOAD_SIZE : (i + 1) * MAX_PAYLOAD_SIZE]
Chunk(data, i) ==
  SubSeq(data, i * MAX_PAYLOAD_SIZE + 1, Min((i + 1) * MAX_PAYLOAD_SIZE, Len(data)))

\* int(idx * 100 / total_packets)
Percent_prev(idx, total) == ((idx - 1) * 100) \div total

Percent(idx, total) == (idx * 100) \div total

\* Any non-empty reply taken as the start acknowledgement.
StartAck_nonempty(n) == n > 0

\* _send_start: len(resp) >= 4
StartAck(n) == n >= 4

\* A reply of 3 bytes taken as a chunk acknowledgement.
PacketAck_three(n) == n >= 3

\* _send_packet: len(resp) >= 4
PacketAck(n) == n >= 4

\* msg = "" if first_ack else <preparing>
ProgressMsg(fa) == IF fa THEN "" ELSE "prep"

\* A frame as written to the port, before the checksum is appended.
Frame(addr, func, idx, total, payload) ==
  [addr |-> addr, func |-> func, idx |-> idx, total |-> total, payload |-> payload]

\* One entry of the port log.  op: "start" or "chunk" (a frame written),
\* "switch" or "restore" (the link configuration assigned).
\* res: "pending" while the read is outstanding, "werr"/"rerr" for a
\* SerialException in write/read, "read" with n the length read (serial),
\* "ok"/"none"/"raise" for the outcome of pymodbus' execute.
LogEntry(op, frame, res, n) == [op |-> op, frame |-> frame, res |-> res, n |-> n]

NoFrame == Frame(0, 0, 0, 0, <<>>)

\* Assigning the four attributes in order when the k-th setter raises
\* (k = 5: none raises); the raising setter may or may not have stored its value.
AssignCfg(cur, new, k, stored) ==
  [j \in 1..4 |-> IF j < k \/ (j = k /\ stored) THEN new[j] ELSE cur[j]]

SetLast(log, res, n) == [log EXCEPT ![Len(log)].res = res, ![Len(log)].n = n]

NoCfg == <<0, 0, "-", 0>>
LIB_CFG == <<115200, 8, "N", 1>>

Progress(pct, msg) == [sig |-> "progress", ok |-> FALSE, pct |-> pct, msg |-> msg, cfg |-> port_cfg]
Finished(ok, cfg) == [sig |-> "finished", ok |-> ok, pct |-> 0, msg |-> "", cfg |-> cfg]

\* Variables that no step of a run changes.
fw_params == <<fw_kind, skip_start, slave_id, fw_file, pre_cfg, gui_vars, rp_vars, ac_vars,
               ext_vars>>

\* ------------------------------------------------------------------------
\* FirmwareUpdateWorker (main.py)
\* ------------------------------------------------------------------------
\* run: open(self.filename).read(), total_packets
FirmwareUpdateWorker_run_open ==
  /\ fw_kind = "main" /\ fw_pc = "open"
  /\ \E ok \in BOOLEAN :
       IF ok
       THEN /\ firmware_data' = fw_file
            /\ total_packets' = TotalPackets(Len(fw_file))
            /\ fw_pc' = "start_write"
            /\ UNCHANGED fw_events
       ELSE /\ fw_events' = Append(fw_events, Finished(FALSE, port_cfg))
            /\ fw_pc' = "done"
            /\ UNCHANGED <<firmware_data, total_packets>>
  /\ UNCHANGED <<fw_params, fw_running, fw_i, fw_attempt, first_ack, orig_cfg,
                 port_cfg, ser_open, fw_log, stop_idx>>

\* _send_start: the frame and serial_port.write
FirmwareUpdateWorker_send_start_write ==
  /\ fw_kind = "main" /\ fw_pc = "start_write"
  /\ \E raised \in BOOLEAN :
       LET frame == Frame(slave_id, FUNC_CODE_START, 0, 0, <<>>) IN
       IF raised
       THEN /\ fw_log' = Append(fw_log, LogEntry("start", frame, "werr", 0))
            /\ fw_events' = Append(fw_events, Finished(FALSE, port_cfg))
            /\ fw_pc' = "done"
       ELSE /\ fw_log' = Append(fw_log, LogEntry("start", frame, "pending", 0))
            /\ fw_pc' = "start_read"
            /\ UNCHANGED fw_events
  /\ UNCHANGED <<fw_params, fw_running, firmware_data, total_packets, fw_i,
                 fw_attempt, first_ack, orig_cfg, port_cfg, ser_open, stop_idx>>

\* _send_start: serial_port.read(8), len(resp) >= 4; run: finished(False) on failure
FirmwareUpdateWorker_send_start_read ==
  /\ fw_kind = "main" /\ fw_pc = "start_read"
  /\ \/ \E n \in RespLens :
          /\ fw_log' = SetLast(fw_log, "read", n)
          /\ IF StartAck(n)
             THEN fw_pc' = "sleep7" /\ UNCHANGED fw_events
             ELSE /\ fw_events' = Append(fw_events, Finished(FALSE, port_cfg))
                  /\ fw_pc' = "done"
     \/ /\ fw_log' = SetLast(fw_log, "rerr", 0)
        /\ fw_events' = Append(fw_events, Finished(FALSE, port_cfg))
        /\ fw_pc' = "done"
  /\ UNCHANGED <<fw_params, fw_running, firmware_data, total_packets, fw_i,
                 fw_attempt, first_ack, orig_cfg, port_cfg, ser_open, stop_idx>>

\* run: time.sleep(7)
FirmwareUpdateWorker_run_sleep ==
  /\ fw_kind = "main" /\ fw_pc = "sleep7"
  /\ fw_pc' = "switch"
  /\ UNCHANGED <<fw_params, fw_running, firmware_data, total_packets, fw_i,
                 fw_attempt, first_ack, orig_cfg, port_cfg, ser_open, fw_log,
                 fw_events, stop_idx>>

\* run: orig_cfg captured, the port switched to the update configuration;
\* a SerialException of a setter ends the run with finished(False)
FirmwareUpdateWorker_run_switch ==
  /\ fw_kind = "main" /\ fw_pc = "switch"
  /\ orig_cfg' = port_cfg
  /\ \E k \in 1..5, stored \in BOOLEAN :
       LET cfg == AssignCfg(port_cfg, DEFAULT_CFG, k, stored) IN
       /\ port_cfg' = cfg
       /\ fw_log' = Append(fw_log, LogEntry("switch", NoFrame, IF k = 5 THEN "ok" ELSE "raise", 0))
       /\ IF k = 5
          THEN /\ fw_pc' = "loop"
               /\ fw_i' = 0
               /\ first_ack' = FALSE
               /\ UNCHANGED fw_events
          ELSE /\ fw_events' = Append(fw_events, Finished(FALSE, cfg))
               /\ fw_pc' = "done"
               /\ UNCHANGED <<fw_i, first_ack>>
  /\ UNCHANGED <<fw_params, fw_running, firmware_data, total_packets,
                 fw_attempt, ser_open, stop_idx>>

\* A restore that leaves the stop bits as they are.
FirmwareUpdateWorker_restore_serial_no_stopbits(cfg, k, stored) ==
  AssignCfg(port_cfg, cfg, Min(k, 4), FALSE)

\* _restore_serial(cfg): the configuration after the assignments, the k-th
\* of which raises (k = 5: none); the exception is swallowed
FirmwareUpdateWorker_restore_serial(cfg, k, stored) ==
  AssignCfg(port_cfg, cfg, k, stored)

\* run: top of the chunk loop (end of the loop, the _running check, the chunk)
FirmwareUpdateWorker_run_loop ==
  /\ fw_kind = "main" /\ fw_pc = "loop"
  /\ IF fw_i >= total_packets
     THEN \E k \in 1..5, stored \in BOOLEAN :
            LET cfg == FirmwareUpdateWorker_restore_serial(orig_cfg, k, stored) IN
            /\ port_cfg' = cfg
            /\ fw_log' = Append(fw_log, LogEntry("restore", NoFrame, IF k = 5 THEN "ok" ELSE "raise", 0))
            /\ fw_events' = Append(fw_events, Finished(TRUE, cfg))
            /\ fw_pc' = "done"
            /\ UNCHANGED fw_attempt
     ELSE IF ~fw_running
     THEN /\ fw_events' = Append(fw_events, Finished(FALSE, port_cfg))
          /\ fw_pc' = "done"
          /\ UNCHANGED <<port_cfg, fw_log, fw_attempt>>
     ELSE /\ fw_pc' = "pkt_write"
          /\ fw_attempt' = 0
          /\ UNCHANGED <<port_cfg, fw_log, fw_events>>
  /\ UNCHANGED <<fw_params, fw_running, firmware_data, total_packets, fw_i,
                 first_ack, orig_cfg, ser_open, stop_idx>>


\* _send_packet with the chunk addressed to the configured slave id
FirmwareUpdateWorker_send_packet_write_to_slave ==
  /\ fw_kind = "main" /\ fw_pc = "pkt_write"
  /\ \E raised \in BOOLEAN :
       LET frame == Frame(slave_id, FUNC_CODE_FIRMWARE, fw_i + 1, total_packets,
                          Chunk(firmware_data, fw_i)) IN
       IF raised
       THEN /\ fw_log' = Append(fw_log, LogEntry("chunk", frame, "werr", 0))
            /\ fw_pc' = "pkt_sleep"
       ELSE /\ fw_log' = Append(fw_log, LogEntry("chunk", frame, "pending", 0))
            /\ fw_pc' = "pkt_read"
  /\ UNCHANGED <<fw_params, fw_running, firmware_data, total_packets, fw_i,
                 fw_attempt, first_ack, orig_cfg, port_cfg, ser_open, fw_events,
                 stop_idx>>

\* _send_packet: the frame of chunk idx = i + 1 and serial_port.write(frame)
FirmwareUpdateWorker_send_packet_write ==
  /\ fw_kind = "main" /\ fw_pc = "pkt_write"
  /\ \E raised \in BOOLEAN :
       LET frame == Frame(BOOTLOADER_ID, FUNC_CODE_FIRMWARE, fw_i + 1, total_packets,
                          Chunk(firmware_data, fw_i)) IN
       IF raised
       THEN /\ fw_log' = Append(fw_log, LogEntry("chunk", frame, "werr", 0))
            /\ fw_pc' = "pkt_sleep"
       ELSE /\ fw_log' = Append(fw_log, LogEntry("chunk", frame, "pending", 0))
            /\ fw_pc' = "pkt_read"
  /\ UNCHANGED <<fw_params, fw_running, firmware_data, total_packets, fw_i,
                 fw_attempt, first_ack, orig_cfg, port_cfg, ser_open, fw_events,
                 stop_idx>>

\* _send_packet: serial_port.read(8); on an acknowledgement run sets
\* first_ack, emits progress and goes to the next chunk
FirmwareUpdateWorker_send_packet_read ==
  /\ fw_kind = "main" /\ fw_pc = "pkt_read"
  /\ \/ \E n \in RespLens :
          /\ fw_log' = SetLast(fw_log, "read", n)
          /\ IF PacketAck(n)
             THEN LET fa == IF ~first_ack THEN TRUE ELSE first_ack IN
                  /\ first_ack' = fa
                  /\ fw_events' = Append(fw_events,
                        Progress(Percent(fw_i + 1, total_packets), ProgressMsg(fa)))
                  /\ fw_i' = fw_i + 1
                  /\ fw_pc' = "loop"
             ELSE /\ fw_pc' = "pkt_sleep"
                  /\ UNCHANGED <<first_ack, fw_events, fw_i>>
     \/ /\ fw_log' = SetLast(fw_log, "rerr", 0)
        /\ fw_pc' = "pkt_sleep"
        /\ UNCHANGED <<first_ack, fw_events, fw_i>>
  /\ UNCHANGED <<fw_params, fw_running, firmware_data, total_packets,
                 fw_attempt, orig_cfg, port_cfg, ser_open, stop_idx>>

\* _send_packet: time.sleep(RETRY_DELAY), the next attempt; after MAX_RETRIES
\* attempts run restores the configuration and emits finished(False)
FirmwareUpdateWorker_send_packet_sleep ==
  /\ fw_kind = "main" /\ fw_pc = "pkt_sleep"
  /\ fw_attempt' = fw_attempt + 1
  /\ IF fw_attempt + 1 < MAX_RETRIES
     THEN /\ fw_pc' = "pkt_write"
          /\ UNCHANGED <<port_cfg, fw_log, fw_events>>
     ELSE \E k \in 1..5, stored \in BOOLEAN :
            LET cfg == FirmwareUpdateWorker_restore_serial(orig_cfg, k, stored) IN
            /\ port_cfg' = cfg
            /\ fw_log' = Append(fw_log, LogEntry("restore", NoFrame, IF k = 5 THEN "ok" ELSE "raise", 0))
            /\ fw_events' = Append(fw_events, Finished(FALSE, cfg))
            /\ fw_pc' = "done"
  /\ UNCHANGED <<fw_params, fw_running, firmware_data, total_packets, fw_i,
                 first_ack, orig_cfg, ser_open, stop_idx>>

\* stop(): self._running = False, called from the GUI thread at any moment
FirmwareUpdateWorker_stop ==
  /\ fw_kind = "main"
  /\ fw_running
  /\ fw_running' = FALSE
  /\ stop_idx' = IF fw_pc = "done" THEN -1
                 ELSE IF fw_pc \in {"pkt_write", "pkt_read", "pkt_sleep"}
                 THEN fw_i + 1 ELSE fw_i
  /\ UNCHANGED <<fw_params, fw_pc, firmware_data, total_packets, fw_i, fw_attempt,
                 first_ack, orig_cfg, port_cfg, ser_open, fw_log, fw_events>>

\* ------------------------------------------------------------------------
\* BootloaderUpdateWorker (main.py)
\* ------------------------------------------------------------------------
\* run: serial.Serial(port_name, DEFAULT_BAUDRATE, ...)
BootloaderUpdateWorker_run_open_port ==
  /\ fw_kind = "boot" /\ fw_pc = "open_port"
  /\ \E ok \in BOOLEAN :
       IF ok
       THEN /\ port_cfg' = DEFAULT_CFG
            /\ ser_open' = TRUE
            /\ fw_pc' = "open"
            /\ UNCHANGED fw_events
       ELSE /\ fw_events' = Append(fw_events, Finished(FALSE, port_cfg))
            /\ fw_pc' = "done"
            /\ UNCHANGED <<port_cfg, ser_open>>
  /\ UNCHANGED <<fw_params, fw_running, firmware_data, total_packets, fw_i,
                 fw_attempt, first_ack, orig_cfg, fw_log, stop_idx>>

\* run: open(self.filename).read(), total_packets, first_ack
BootloaderUpdateWorker_run_open ==
  /\ fw_kind = "boot" /\ fw_pc = "open"
  /\ \E ok \in BOOLEAN :
       IF ok
       THEN /\ firmware_data' = fw_file
            /\ total_packets' = TotalPackets(Len(fw_file))
            /\ first_ack' = FALSE
            /\ fw_i' = 0
            /\ fw_pc' = "loop"
            /\ UNCHANGED <<fw_events, ser_open>>
       ELSE /\ ser_open' = FALSE
            /\ fw_events' = Append(fw_events, Finished(FALSE, port_cfg))
            /\ fw_pc' = "done"
            /\ UNCHANGED <<firmware_data, total_packets, first_ack, fw_i>>
  /\ UNCHANGED <<fw_params, fw_running, fw_attempt, orig_cfg, port_cfg, fw_log,
                 stop_idx>>

\* run without the test of self._running in the chunk loop
BootloaderUpdateWorker_run_loop_ignores_stop ==
  /\ fw_kind = "boot" /\ fw_pc = "loop"
  /\ IF fw_i >= total_packets
     THEN /\ ser_open' = FALSE
          /\ fw_events' = Append(fw_events, Finished(TRUE, port_cfg))
          /\ fw_pc' = "done"
          /\ UNCHANGED fw_attempt
     ELSE /\ fw_pc' = "pkt_write"
          /\ fw_attempt' = 0
          /\ UNCHANGED <<ser_open, fw_events>>
  /\ UNCHANGED <<fw_params, fw_running, firmware_data, total_packets, fw_i,
                 first_ack, orig_cfg, port_cfg, fw_log, stop_idx>>

\* run: top of the chunk loop
BootloaderUpdateWorker_run_loop ==
  /\ fw_kind = "boot" /\ fw_pc = "loop"
  /\ IF fw_i >= total_packets
     THEN /\ ser_open' = FALSE
          /\ fw_events' = Append(fw_events, Finished(TRUE, port_cfg))
          /\ fw_pc' = "done"
          /\ UNCHANGED fw_attempt
     ELSE IF ~fw_running
     THEN /\ ser_open' = FALSE
          /\ fw_events' = Append(fw_events, Finished(FALSE, port_cfg))
          /\ fw_pc' = "done"
          /\ UNCHANGED fw_attempt
     ELSE /\ fw_pc' = "pkt_write"
          /\ fw_attempt' = 0
          /\ UNCHANGED <<ser_open, fw_events>>
  /\ UNCHANGED <<fw_params, fw_running, firmware_data, total_packets, fw_i,
                 first_ack, orig_cfg, port_cfg, fw_log, stop_idx>>

\* _send_packet: the frame of chunk idx = i + 1 and ser.write(frame)
BootloaderUpdateWorker_send_packet_write ==
  /\ fw_kind = "boot" /\ fw_pc = "pkt_write"
  /\ \E raised \in BOOLEAN :
       LET frame == Frame(slave_id, FUNC_CODE_FIRMWARE, fw_i + 1, total_packets,
                          Chunk(firmware_data, fw_i)) IN
       IF raised
       THEN /\ fw_log' = Append(fw_log, LogEntry("chunk", frame, "werr", 0))
            /\ fw_pc' = "pkt_sleep"
       ELSE /\ fw_log' = Append(fw_log, LogEntry("chunk", frame, "pending", 0))
            /\ fw_pc' = "pkt_read"
  /\ UNCHANGED <<fw_params, fw_running, firmware_data, total_packets, fw_i,
                 fw_attempt, first_ack, orig_cfg, port_cfg, ser_open, fw_events,
                 stop_idx>>

\* _send_packet: ser.read(8); on an acknowledgement run emits progress
BootloaderUpdateWorker_send_packet_read ==
  /\ fw_kind = "boot" /\ fw_pc = "pkt_read"
  /\ \/ \E n \in RespLens :
          /\ fw_log' = SetLast(fw_log, "read", n)
          /\ IF PacketAck(n)
             THEN LET fa == IF ~first_ack THEN TRUE ELSE first_ack IN
                  /\ first_ack' = fa
                  /\ fw_events' = Append(fw_events,
                        Progress(Percent(fw_i + 1, total_packets), ProgressMsg(fa)))
                  /\ fw_i' = fw_i + 1
                  /\ fw_pc' = "loop"
             ELSE /\ fw_pc' = "pkt_sleep"
                  /\ UNCHANGED <<first_ack, fw_events, fw_i>>
     \/ /\ fw_log' = SetLast(fw_log, "rerr", 0)
        /\ fw_pc' = "pkt_sleep"
        /\ UNCHANGED <<first_ack, fw_events, fw_i>>
  /\ UNCHANGED <<fw_params, fw_running, firmware_data, total_packets,
                 fw_attempt, orig_cfg, port_cfg, ser_open, stop_idx>>

\* _send_packet: time.sleep(RETRY_DELAY); after MAX_RETRIES attempts run
\* closes the port and emits finished(False)
BootloaderUpdateWorker_send_packet_sleep ==
  /\ fw_kind = "boot" /\ fw_pc = "pkt_sleep"
  /\ fw_attempt' = fw_attempt + 1
  /\ IF fw_attempt + 1 < MAX_RETRIES
     THEN /\ fw_pc' = "pkt_write"
          /\ UNCHANGED <<ser_open, fw_events>>
     ELSE /\ ser_open' = FALSE
          /\ fw_events' = Append(fw_events, Finished(FALSE, port_cfg))
          /\ fw_pc' = "done"
  /\ UNCHANGED <<fw_params, fw_running, firmware_data, total_packets, fw_i,
                 first_ack, orig_cfg, port_cfg, fw_log, stop_idx>>

\* stop(): self._running = False
BootloaderUpdateWorker_stop ==
  /\ fw_kind = "boot"
  /\ fw_running
  /\ fw_running' = FALSE
  /\ stop_idx' = IF fw_pc = "done" THEN -1
                 ELSE IF fw_pc \in {"pkt_write", "pkt_read", "pkt_sleep"}
                 THEN fw_i + 1 ELSE fw_i
  /\ UNCHANGED <<fw_params, fw_pc, firmware_data, total_packets, fw_i, fw_attempt,
                 first_ack, orig_cfg, port_cfg, ser_open, fw_log, fw_events>>

\* ------------------------------------------------------------------------
\* send_firmware and FirmwareUpdateWorker.run (firmware_update.py)
\* ------------------------------------------------------------------------
\* Outcomes of client.execute: a response object, a false value, an exception.
ExecOutcomes == {"ok", "none", "raise"}

\* send_firmware: open(filename).read(), total_packets
send_firmware_open ==
  /\ fw_kind = "lib" /\ fw_pc = "open"
  /\ \E ok \in BOOLEAN :
       IF ok
       THEN /\ firmware_data' = fw_file
            /\ total_packets' = TotalPackets(Len(fw_file))
            /\ fw_pc' = "connect"
            /\ UNCHANGED fw_events
       ELSE /\ fw_events' = Append(fw_events, Finished(FALSE, port_cfg))
            /\ fw_pc' = "done"
            /\ UNCHANGED <<firmware_data, total_packets>>
  /\ UNCHANGED <<fw_params, fw_running, fw_i, fw_attempt, first_ack, orig_cfg,
                 port_cfg, ser_open, fw_log, stop_idx>>

\* send_firmware: ModbusSerialClient(...), client.connect(); without
\* skip_start progress_cb(0, <preparing>), with it progress_cb(0, "")
send_firmware_connect ==
  /\ fw_kind = "lib" /\ fw_pc = "connect"
  /\ \E ok \in BOOLEAN :
       IF ok
       THEN /\ port_cfg' = LIB_CFG
            /\ ser_open' = TRUE
            /\ fw_events' = Append(fw_events,
                  [sig |-> "progress", ok |-> FALSE, pct |-> 0,
                   msg |-> IF skip_start THEN "" ELSE "prep", cfg |-> LIB_CFG])
            /\ IF skip_start
               THEN fw_pc' = "loop" /\ first_ack' = FALSE /\ fw_i' = 0
               ELSE fw_pc' = "start" /\ UNCHANGED <<first_ack, fw_i>>
       ELSE /\ fw_events' = Append(fw_events, Finished(FALSE, port_cfg))
            /\ fw_pc' = "done"
            /\ UNCHANGED <<port_cfg, ser_open, first_ack, fw_i>>
  /\ UNCHANGED <<fw_params, fw_running, firmware_data, total_packets,
                 fw_attempt, orig_cfg, fw_log, stop_idx>>

\* send_firmware: client.execute(False, StartUpdateRequest(unit=slave_id))
send_firmware_start ==
  /\ fw_kind = "lib" /\ fw_pc = "start"
  /\ \E out \in ExecOutcomes :
       /\ fw_log' = Append(fw_log,
             LogEntry("start", Frame(slave_id, FUNC_CODE_START, 0, 0, <<>>), out, 0))
       /\ CASE out = "ok" ->
                 /\ fw_pc' = "sleep7"
                 /\ UNCHANGED <<ser_open, fw_events>>
            [] out = "none" ->
                 /\ ser_open' = FALSE
                 /\ fw_events' = Append(fw_events, Finished(FALSE, port_cfg))
                 /\ fw_pc' = "done"
            [] out = "raise" ->
                 /\ fw_pc' = "crashed"
                 /\ UNCHANGED <<ser_open, fw_events>>
  /\ UNCHANGED <<fw_params, fw_running, firmware_data, total_packets, fw_i,
                 fw_attempt, first_ack, orig_cfg, port_cfg, stop_idx>>

\* send_firmware: time.sleep(7), first_ack = False
send_firmware_sleep ==
  /\ fw_kind = "lib" /\ fw_pc = "sleep7"
  /\ fw_pc' = "loop"
  /\ first_ack' = FALSE
  /\ fw_i' = 0
  /\ UNCHANGED <<fw_params, fw_running, firmware_data, total_packets,
                 fw_attempt, orig_cfg, port_cfg, ser_open, fw_log, fw_events,
                 stop_idx>>

\* send_firmware: top of the chunk loop; after the loop client.close(),
\* progress_cb(100, ""), return True (run emits finished(True))
send_firmware_loop ==
  /\ fw_kind = "lib" /\ fw_pc = "loop"
  /\ IF fw_i >= total_packets
     THEN /\ ser_open' = FALSE
          /\ fw_events' = fw_events \o
                << [sig |-> "progress", ok |-> FALSE, pct |-> 100, msg |-> "", cfg |-> port_cfg],
                   Finished(TRUE, port_cfg) >>
          /\ fw_pc' = "done"
          /\ UNCHANGED fw_attempt
     ELSE /\ fw_pc' = "execute"
          /\ fw_attempt' = 0
          /\ UNCHANGED <<ser_open, fw_events>>
  /\ UNCHANGED <<fw_params, fw_running, firmware_data, total_packets, fw_i,
                 first_ack, orig_cfg, port_cfg, fw_log, stop_idx>>

\* send_firmware: client.execute(False, FirmwareRequest(idx, total_packets, chunk))
send_firmware_execute ==
  /\ fw_kind = "lib" /\ fw_pc = "execute"
  /\ \E out \in ExecOutcomes :
       /\ fw_log' = Append(fw_log,
             LogEntry("chunk", Frame(slave_id, FUNC_CODE_FIRMWARE, fw_i + 1, total_packets,
                                     Chunk(firmware_data, fw_i)), out, 0))
       /\ CASE out = "ok" ->
                 /\ first_ack' = TRUE
                 /\ fw_events' = Append(fw_events,
                       Progress(Percent(fw_i + 1, total_packets), ProgressMsg(TRUE)))
                 /\ fw_i' = fw_i + 1
                 /\ fw_pc' = "loop"
            [] out = "none" ->
                 /\ fw_pc' = "retry_sleep"
                 /\ UNCHANGED <<first_ack, fw_events, fw_i>>
            [] out = "raise" ->
                 /\ fw_pc' = "crashed"
                 /\ UNCHANGED <<first_ack, fw_events, fw_i>>
  /\ UNCHANGED <<fw_params, fw_running, firmware_data, total_packets,
                 fw_attempt, orig_cfg, port_cfg, ser_open, stop_idx>>

\* send_firmware: time.sleep(RETRY_DELAY); the for-else after MAX_RETRIES
\* attempts: client.close(), return False (run emits finished(False))
send_firmware_retry_sleep ==
  /\ fw_kind = "lib" /\ fw_pc = "retry_sleep"
  /\ fw_attempt' = fw_attempt + 1
  /\ IF fw_attempt + 1 < MAX_RETRIES
     THEN /\ fw_pc' = "execute"
          /\ UNCHANGED <<ser_open, fw_events>>
     ELSE /\ ser_open' = FALSE
          /\ fw_events' = Append(fw_events, Finished(FALSE, port_cfg))
          /\ fw_pc' = "done"
  /\ UNCHANGED <<fw_params, fw_running, firmware_data, total_packets, fw_i,
                 first_ack, orig_cfg, port_cfg, fw_log, stop_idx>>

\* ------------------------------------------------------------------------
\* The GUI after construction (UMVH.__init__)
\* ------------------------------------------------------------------------
WorkerIds == 1..MaxWorkers
HandleIds == 1..MaxHandles

\* A reference to a worker object whose run has returned.
DEAD == 0 - 1

NoWorker == [type |-> "none", st |-> "unused", running |-> FALSE, h |-> 0, fails |-> 0]

\* populate_com_ports has selected a port, or found none.
GuiIdle ==
  /\ selected_port \in BOOLEAN
  /\ serial_port = 0
  /\ h_open = [h \in HandleIds |-> FALSE]
  /\ workers = [w \in WorkerIds |-> NoWorker]
  /\ worker = 0
  /\ poller = 0
  /\ updater = 0
  /\ bl_updater = 0
  /\ calibration_port = FALSE
  /\ gui_handler = ""
  /\ gui_todo = <<>>
  /\ gui_queue = <<>>
  /\ timers = <<>>
  /\ clicks = 0

\* No RegisterPoller run is followed.
RpIdle ==
  /\ rp_slave_id = 1
  /\ rp_pc = "done"
  /\ rp_call = ""
  /\ rp_running = FALSE
  /\ fail_count = 0
  /\ sensor_regs = <<>>
  /\ resp = <<>>
  /\ rp_log = <<>>
  /\ rp_events = <<>>
  /\ data_ready_args = <<>>
  /\ rp_stopped = FALSE

\* No helper call is followed.
PfIdle ==
  /\ pf_fn = ""
  /\ pf_in = <<>>
  /\ pf_out = <<>>

\* No register call is followed.
ChIdle ==
  /\ ch_fn = ""
  /\ ch_args = <<>>
  /\ ch_pc = "done"
  /\ ch_port = "none"
  /\ ch_tx = <<>>
  /\ ch_reads = 0
  /\ ch_resp = <<>>
  /\ ch_out = <<>>

\* None, where the source's value is an int or None
NONE == 0 - 1

\* {"x1": None, "y1": None, "x2": None, "y2": None}
NoPoints == [x1 |-> NONE, y1 |-> NONE, x2 |-> NONE, y2 |-> NONE]

\* [0] * REG_SENSOR_READ_COUNT
ZeroBlock == [i \in 1..8 |-> 0]

\* what a handler leaves behind: its name, its outcome, its inputs
Last(h, res, args) == [h |-> h, res |-> res, args |-> args]

\* UMVH.__init__: the calibration state
CalIdle ==
  /\ cal_kind = ""
  /\ cal_page = "page_16"
  /\ cal_port = 0
  /\ cal_sensor = NONE
  /\ two_point_data = NoPoints
  /\ four_point_data = NoPoints
  /\ polled = ZeroBlock
  /\ latest_sensor_values = ZeroBlock
  /\ spin_live = 0
  /\ cal_link = "open"
  /\ cal_log = <<>>
  /\ cal_last = Last("", "", <<>>)
  /\ cal_clicks = 0

ExtIdle == PfIdle /\ ChIdle /\ CalIdle

\* No AutoConnectWorker run is followed.
AcIdle ==
  /\ ac_pc = "done"
  /\ ac_running = FALSE
  /\ ac_open = FALSE
  /\ rx_buf = <<>>
  /\ rx_stream = <<>>
  /\ ac_data = <<>>
  /\ ac_beacons = 0
  /\ ac_events = <<>>
  /\ dev_sent = <<0, 0>>

\* ------------------------------------------------------------------------
\* A single run of one firmware worker
\* ------------------------------------------------------------------------
InitFw ==
  /\ fw_kind \in Kinds
  /\ skip_start \in (IF fw_kind = "lib" THEN BOOLEAN ELSE {FALSE})
  /\ slave_id \in (IF fw_kind = "boot" THEN {BOOTLOADER_ID} ELSE SlaveIds)
  /\ fw_file \in {ImageOf(L) : L \in ImageLens}
  /\ fw_pc = IF fw_kind = "boot" THEN "open_port" ELSE "open"
  /\ fw_running = TRUE
  /\ firmware_data = <<>>
  /\ total_packets = 0
  /\ fw_i = 0
  /\ fw_attempt = 0
  /\ first_ack = FALSE
  /\ orig_cfg = <<>>
  /\ port_cfg \in (IF fw_kind = "main" THEN PortCfgs ELSE {NoCfg})
  /\ pre_cfg = port_cfg
  /\ ser_open = (fw_kind = "main")
  /\ fw_log = <<>>
  /\ fw_events = <<>>
  /\ stop_idx = -1
  /\ GuiIdle /\ selected_port
  /\ RpIdle /\ AcIdle /\ ExtIdle

NextFw ==
  \/ FirmwareUpdateWorker_run_open
  \/ FirmwareUpdateWorker_send_start_write
  \/ FirmwareUpdateWorker_send_start_read
  \/ FirmwareUpdateWorker_run_sleep
  \/ FirmwareUpdateWorker_run_switch
  \/ FirmwareUpdateWorker_run_loop
  \/ FirmwareUpdateWorker_send_packet_write
  \/ FirmwareUpdateWorker_send_packet_read
  \/ FirmwareUpdateWorker_send_packet_sleep
  \/ FirmwareUpdateWorker_stop
  \/ BootloaderUpdateWorker_run_open_port
  \/ BootloaderUpdateWorker_run_open
  \/ BootloaderUpdateWorker_run_loop
  \/ BootloaderUpdateWorker_send_packet_write
  \/ BootloaderUpdateWorker_send_packet_read
  \/ BootloaderUpdateWorker_send_packet_sleep
  \/ BootloaderUpdateWorker_stop
  \/ send_firmware_open
  \/ send_firmware_connect
  \/ send_firmware_start
  \/ send_firmware_sleep
  \/ send_firmware_loop
  \/ send_firmware_execute
  \/ send_firmware_retry_sleep

SpecFw == InitFw /\ [][NextFw]_vars

\* ------------------------------------------------------------------------
\* The workers as the GUI sees them: threads that own the link
\* ------------------------------------------------------------------------
\* A worker is followed from thread.start() to the return of run, through the
\* points at which it writes a request and reads the reply.  The chunk and
\* attempt counters of the two firmware workers are inputs here (more,
\* exhausted); SpecFw follows them.

\* r refers to a worker whose run has not returned.
Live(r) == r \in WorkerIds

FreeWorkers == {w \in WorkerIds : workers[w].st = "unused"}
NewWorkerId == CHOOSE w \in FreeWorkers : \A v \in FreeWorkers : w <= v

\* A serial.Serial object nobody refers to is closed by its destructor.
Referenced(h, sp, ws) == sp = h \/ \E w \in WorkerIds : ws[w].h = h
Collect(hopen, sp, ws) == [h \in HandleIds |-> hopen[h] /\ Referenced(h, sp, ws)]

FreeHandles == {h \in HandleIds : ~Referenced(h, serial_port, workers)}
NewHandleId == CHOOSE h \in FreeHandles : \A g \in FreeHandles : h <= g

NewWorker(type, st, h) == [type |-> type, st |-> st, running |-> TRUE, h |-> h, fails |-> 0]

Deref(r, w) == IF r = w THEN DEAD ELSE r

\* The part of the GUI no worker step touches.
gui_own == <<clicks, selected_port, serial_port, calibration_port, gui_handler, gui_todo, timers>>

\* Worker w goes on to point st of its run.
Goto(w, st) ==
  /\ workers' = [workers EXCEPT ![w].st = st]
  /\ UNCHANGED <<gui_own, h_open, worker, poller, updater, bl_updater, gui_queue, run_vars>>

\* run of worker w returns; sig ("": none) is the signal it emitted for a
\* slot of the GUI thread, delivered through the GUI's event queue.
RunReturns(w, sig) ==
  /\ sig # "" => Len(gui_queue) < MaxQueue
  /\ workers' = [workers EXCEPT ![w] = NoWorker]
  /\ h_open' = Collect(h_open, serial_port, workers')
  /\ worker' = Deref(worker, w)
  /\ poller' = Deref(poller, w)
  /\ updater' = Deref(updater, w)
  /\ bl_updater' = Deref(bl_updater, w)
  /\ gui_queue' = IF sig = "" THEN gui_queue ELSE Append(gui_queue, sig)
  /\ UNCHANGED <<gui_own, run_vars>>

\* RegisterPoller._read_registers: self._fail_count >= 5
POLL_FAIL_LIMIT == 5

\* RegisterPoller.run: while self._running, then the write of the request
\* for the sensor block (a SerialException: error is emitted, _running is
\* cleared and the loop ends)
RegisterPoller_run(w, raised) ==
  /\ workers[w].type = "poller" /\ workers[w].st = "loop"
  /\ ~h_open[workers[w].h] => raised
  /\ IF ~workers[w].running \/ raised THEN RunReturns(w, "")
     ELSE Goto(w, "tx1")

\* RegisterPoller.run: the write of the request for the status block
RegisterPoller_run_status(w, raised) ==
  /\ workers[w].type = "poller" /\ workers[w].st = "mid"
  /\ ~h_open[workers[w].h] => raised
  /\ IF raised THEN RunReturns(w, "") ELSE Goto(w, "tx2")

\* RegisterPoller._read_registers: the read and what follows it; res: the
\* reply is complete ("ok"), short or corrupt ("bad"), or read raised
RegisterPoller_read_registers(w, res) ==
  /\ workers[w].type = "poller" /\ workers[w].st \in {"tx1", "tx2"}
  /\ ~h_open[workers[w].h] => res = "raise"
  /\ CASE res = "raise" -> RunReturns(w, "")
       [] res = "bad" ->
            IF workers[w].fails + 1 >= POLL_FAIL_LIMIT
            THEN RunReturns(w, "connection_lost")
            ELSE /\ workers' = [workers EXCEPT ![w].st = "loop",
                                               ![w].fails = workers[w].fails + 1]
                 /\ UNCHANGED <<gui_own, h_open, worker, poller, updater, bl_updater,
                                gui_queue, run_vars>>
       [] res = "ok" ->
            IF workers[w].st = "tx1" THEN Goto(w, "mid")
            ELSE /\ workers' = [workers EXCEPT ![w].st = "loop", ![w].fails = 0]
                 /\ UNCHANGED <<gui_own, h_open, worker, poller, updater, bl_updater,
                                gui_queue, run_vars>>

\* AutoConnectWorker.run: serial.Serial(...) on the selected port
AutoConnectWorker_run_open(w, opened) ==
  /\ workers[w].type = "auto" /\ workers[w].st = "open"
  /\ IF opened THEN Goto(w, "loop") ELSE RunReturns(w, "")

\* AutoConnectWorker.run: while self._running, then ser.write(AUTO_CONNECT_CMD)
AutoConnectWorker_run(w, raised) ==
  /\ workers[w].type = "auto" /\ workers[w].st = "loop"
  /\ IF ~workers[w].running \/ raised THEN RunReturns(w, "")
     ELSE Goto(w, "tx")

\* AutoConnectWorker.run: ser.read and the check of the reply ("raise": the
\* exception of read is not caught and ends run)
AutoConnectWorker_run_read(w, res) ==
  /\ workers[w].type = "auto" /\ workers[w].st = "tx"
  /\ CASE res = "ok" -> RunReturns(w, "auto_connect_finished")
       [] res = "bad" -> Goto(w, "loop")
       [] res = "raise" -> RunReturns(w, "")

\* FirmwareUpdateWorker.run: the image file is read
GuiFw_run_open(w, ok) ==
  /\ workers[w].type = "updater" /\ workers[w].st = "file"
  /\ IF ok THEN Goto(w, "start") ELSE RunReturns(w, "update_failed")

\* FirmwareUpdateWorker._send_start: the write of the start frame
GuiFw_send_start_write(w, raised) ==
  /\ workers[w].type = "updater" /\ workers[w].st = "start"
  /\ ~h_open[workers[w].h] => raised
  /\ IF raised THEN RunReturns(w, "update_failed") ELSE Goto(w, "start_tx")

GuiFw_send_start_read_retry(w, acked) ==
  /\ workers[w].type = "updater" /\ workers[w].st = "start_tx"
  /\ ~h_open[workers[w].h] => ~acked
  /\ IF acked THEN Goto(w, "sleep") ELSE Goto(w, "start")

\* FirmwareUpdateWorker._send_start: the read of the acknowledgement
GuiFw_send_start_read(w, acked) ==
  /\ workers[w].type = "updater" /\ workers[w].st = "start_tx"
  /\ ~h_open[workers[w].h] => ~acked
  /\ IF acked THEN Goto(w, "sleep") ELSE RunReturns(w, "update_failed")

\* FirmwareUpdateWorker.run: time.sleep(7) and the switch of the configuration
GuiFw_run_switch(w, raised) ==
  /\ workers[w].type = "updater" /\ workers[w].st = "sleep"
  /\ IF raised THEN RunReturns(w, "update_failed") ELSE Goto(w, "loop")

\* FirmwareUpdateWorker.run: top of the chunk loop; more: i < total_packets
GuiFw_run_loop(w, more) ==
  /\ workers[w].type = "updater" /\ workers[w].st = "loop"
  /\ IF ~more THEN RunReturns(w, "update_ok")
     ELSE IF ~workers[w].running THEN RunReturns(w, "update_failed")
     ELSE Goto(w, "pkt")

\* FirmwareUpdateWorker._send_packet: the write of an attempt; when it
\* raises the attempt has failed (exhausted: it was the last one)
GuiFw_send_packet_write(w, raised, exhausted) ==
  /\ workers[w].type = "updater" /\ workers[w].st = "pkt"
  /\ ~h_open[workers[w].h] => raised
  /\ IF ~raised THEN ~exhausted /\ Goto(w, "pkt_tx")
     ELSE exhausted /\ RunReturns(w, "update_failed")

\* FirmwareUpdateWorker._send_packet: the read of an attempt
GuiFw_send_packet_read(w, acked, exhausted) ==
  /\ workers[w].type = "updater" /\ workers[w].st = "pkt_tx"
  /\ ~h_open[workers[w].h] => ~acked
  /\ IF acked THEN ~exhausted /\ Goto(w, "loop")
     ELSE IF exhausted THEN RunReturns(w, "update_failed")
     ELSE Goto(w, "pkt")

\* BootloaderUpdateWorker.run: serial.Serial(...) and the image file
GuiBoot_run_open(w, ok) ==
  /\ workers[w].type = "boot" /\ workers[w].st = "open"
  /\ IF ok THEN Goto(w, "loop") ELSE RunReturns(w, "boot_update_finished")

\* BootloaderUpdateWorker.run: top of the chunk loop
GuiBoot_run_loop(w, more) ==
  /\ workers[w].type = "boot" /\ workers[w].st = "loop"
  /\ IF ~more \/ ~workers[w].running THEN RunReturns(w, "boot_update_finished")
     ELSE Goto(w, "pkt")

\* BootloaderUpdateWorker._send_packet: the write of an attempt
GuiBoot_send_packet_write(w, raised, exhausted) ==
  /\ workers[w].type = "boot" /\ workers[w].st = "pkt"
  /\ IF ~raised THEN ~exhausted /\ Goto(w, "pkt_tx")
     ELSE exhausted /\ RunReturns(w, "boot_update_finished")

\* BootloaderUpdateWorker._send_packet: the read of an attempt
GuiBoot_send_packet_read(w, acked, exhausted) ==
  /\ workers[w].type = "boot" /\ workers[w].st = "pkt_tx"
  /\ IF acked THEN ~exhausted /\ Goto(w, "loop")
     ELSE IF exhausted THEN RunReturns(w, "boot_update_finished")
     ELSE Goto(w, "pkt")

\* ------------------------------------------------------------------------
\* The GUI thread (UMVH)
\* ------------------------------------------------------------------------
\* A handler runs on the GUI thread from its first statement to its return;
\* gui_todo holds what is left of it at the points where it blocks (a read
\* of a reply, QThread.wait).  Queued signals and timers are handled by the
\* event loop, that is when no handler runs.

GuiIdleLoop == gui_handler = "" /\ gui_todo = <<>>

\* The operator starts one more operation.
Click == clicks < MaxClicks /\ clicks' = clicks + 1

\* The handler goes on with rest, or returns.
Continue(rest) ==
  /\ gui_todo' = rest
  /\ gui_handler' = IF rest = <<>> THEN "" ELSE gui_handler

\* _handle_comm_error, which every caller follows by return
CommErrorTodo == <<"stop_polling", "wait_poll", "wait_update", "wait_boot", "close">>

\* worker.stop() on the worker r refers to
StopFlag(ws, r) == IF Live(r) THEN [ws EXCEPT ![r].running = FALSE] ELSE ws

InReply == {"write_register_read", "read_register_read", "manual_connect_read"}

\* The GUI thread has written a request and waits for its reply.
GuiInTransaction == gui_todo # <<>> /\ Head(gui_todo) \in InReply

At(op) == gui_todo # <<>> /\ Head(gui_todo) = op

\* start_polling: a new RegisterPoller on self.serial_port, in a new thread
StartPolling(sp, ws) ==
  IF sp = 0 THEN poller' = poller /\ workers' = ws
  ELSE LET free == {w \in WorkerIds : ws[w].st = "unused"}
           new == CHOOSE w \in free : \A v \in free : w <= v
       IN /\ free # {}
          /\ workers' = [ws EXCEPT ![new] = NewWorker("poller", "loop", sp)]
          /\ poller' = new

\* start_auto_connect: a new AutoConnectWorker in a new thread
UMVH_start_auto_connect ==
  /\ GuiIdleLoop
  /\ Click
  /\ selected_port
  /\ FreeWorkers # {}
  /\ workers' = [workers EXCEPT ![NewWorkerId] = NewWorker("auto", "open", 0)]
  /\ worker' = NewWorkerId
  /\ UNCHANGED <<selected_port, serial_port, calibration_port, gui_handler, gui_todo,
                 timers, h_open, poller, updater, bl_updater, gui_queue, run_vars>>

\* stop_auto_connect: worker.stop(), then worker_thread.wait(), stop_polling
UMVH_stop_auto_connect ==
  /\ GuiIdleLoop
  /\ Click
  /\ workers' = StopFlag(workers, worker)
  /\ gui_handler' = "stop_auto_connect"
  /\ gui_todo' = <<"wait_worker", "stop_polling", "wait_poll">>
  /\ UNCHANGED <<selected_port, serial_port, calibration_port, timers, h_open,
                 worker, poller, updater, bl_updater, gui_queue, run_vars>>

\* worker_thread.quit(); worker_thread.wait()
UMVH_wait_worker ==
  /\ At("wait_worker")
  /\ ~Live(worker)
  /\ Continue(Tail(gui_todo))
  /\ UNCHANGED <<clicks, selected_port, serial_port, calibration_port, timers, h_open, workers,
                 worker, poller, updater, bl_updater, gui_queue, run_vars>>

\* stop_polling: poller.stop()
UMVH_stop_polling ==
  /\ At("stop_polling")
  /\ workers' = StopFlag(workers, poller)
  /\ Continue(Tail(gui_todo))
  /\ UNCHANGED <<clicks, selected_port, serial_port, calibration_port, timers, h_open,
                 worker, poller, updater, bl_updater, gui_queue, run_vars>>

\* stop_polling: poll_thread.quit(); poll_thread.wait()
UMVH_stop_polling_wait ==
  /\ At("wait_poll")
  /\ ~Live(poller)
  /\ Continue(Tail(gui_todo))
  /\ UNCHANGED <<clicks, selected_port, serial_port, calibration_port, timers, h_open, workers,
                 worker, poller, updater, bl_updater, gui_queue, run_vars>>

\* start_polling as the last statement of a handler
UMVH_start_polling ==
  /\ At("start_polling")
  /\ StartPolling(serial_port, workers)
  /\ Continue(Tail(gui_todo))
  /\ UNCHANGED <<clicks, selected_port, serial_port, calibration_port, timers, h_open,
                 worker, updater, bl_updater, gui_queue, run_vars>>

\* _auto_connect_finished: the port is opened with the settings found (or
\* the handler returns), the calibration state is reset, polling starts
AutoConnectFinished(opened) ==
  IF ~opened
  THEN UNCHANGED <<serial_port, h_open, calibration_port, workers, poller>>
  ELSE /\ FreeHandles # {}
       /\ serial_port' = NewHandleId
       /\ calibration_port' = FALSE
       /\ StartPolling(NewHandleId, workers)
       /\ h_open' = Collect([h_open EXCEPT ![NewHandleId] = TRUE], serial_port', workers')

\* _auto_connect_finished as the slot of AutoConnectWorker.finished
UMVH_auto_connect_finished(opened) ==
  /\ GuiIdleLoop
  /\ gui_queue # <<>> /\ Head(gui_queue) = "auto_connect_finished"
  /\ gui_queue' = Tail(gui_queue)
  /\ AutoConnectFinished(opened)
  /\ UNCHANGED <<clicks, selected_port, gui_handler, gui_todo, timers, worker, updater,
                 bl_updater, run_vars>>

\* manual_connect: a temporary serial.Serial, the request written to it
UMVH_manual_connect ==
  /\ GuiIdleLoop
  /\ Click
  /\ selected_port
  /\ gui_handler' = "manual_connect"
  /\ gui_todo' = <<"manual_connect_read">>
  /\ UNCHANGED <<selected_port, serial_port, calibration_port, timers, h_open, workers,
                 worker, poller, updater, bl_updater, gui_queue, run_vars>>

\* manual_connect: the read of the reply, ser.close(), and on a valid reply
\* _auto_connect_finished(settings)
UMVH_manual_connect_read(valid, opened) ==
  /\ At("manual_connect_read")
  /\ Continue(<<>>)
  /\ IF valid THEN AutoConnectFinished(opened)
     ELSE UNCHANGED <<serial_port, h_open, calibration_port, workers, poller>>
  /\ UNCHANGED <<clicks, selected_port, timers, worker, updater, bl_updater, gui_queue, run_vars>>

\* _handle_comm_error as the slot of RegisterPoller.connection_lost
UMVH_handle_comm_error ==
  /\ GuiIdleLoop
  /\ gui_queue # <<>> /\ Head(gui_queue) = "connection_lost"
  /\ gui_queue' = Tail(gui_queue)
  /\ gui_handler' = "_handle_comm_error"
  /\ gui_todo' = CommErrorTodo
  /\ UNCHANGED <<clicks, selected_port, serial_port, calibration_port, timers, h_open, workers,
                 worker, poller, updater, bl_updater, run_vars>>

\* _handle_comm_error: update_thread.quit(); update_thread.wait()
UMVH_handle_comm_error_wait_update ==
  /\ At("wait_update")
  /\ ~Live(updater)
  /\ Continue(Tail(gui_todo))
  /\ UNCHANGED <<clicks, selected_port, serial_port, calibration_port, timers, h_open, workers,
                 worker, poller, updater, bl_updater, gui_queue, run_vars>>

\* _handle_comm_error: bl_update_thread.wait(), both references cleared
UMVH_handle_comm_error_wait_boot ==
  /\ At("wait_boot")
  /\ ~Live(bl_updater)
  /\ bl_updater' = 0
  /\ Continue(Tail(gui_todo))
  /\ UNCHANGED <<clicks, selected_port, serial_port, calibration_port, timers, h_open, workers,
                 worker, poller, updater, gui_queue, run_vars>>

\* _handle_comm_error: serial_port.close(); self.serial_port keeps the object
UMVH_handle_comm_error_close ==
  /\ At("close")
  /\ h_open' = IF serial_port = 0 THEN h_open ELSE [h_open EXCEPT ![serial_port] = FALSE]
  /\ Continue(Tail(gui_todo))
  /\ UNCHANGED <<clicks, selected_port, serial_port, calibration_port, timers, workers,
                 worker, poller, updater, bl_updater, gui_queue, run_vars>>

\* _write_register: the write of the request.  self.serial_port None: the
\* AttributeError ends the handler; a SerialException: False is returned
UMVH_write_register(raised) ==
  /\ At("write_register")
  /\ (serial_port # 0 /\ ~h_open[serial_port]) => raised
  /\ IF serial_port = 0 THEN Continue(<<>>)
     ELSE IF raised THEN Continue(CommErrorTodo)
     ELSE Continue(<<"write_register_read">> \o Tail(gui_todo))
  /\ UNCHANGED <<clicks, selected_port, serial_port, calibration_port, timers, h_open, workers,
                 worker, poller, updater, bl_updater, gui_queue, run_vars>>

\* _write_register: the read of the echo; not ok: _handle_comm_error
UMVH_write_register_read(ok) ==
  /\ At("write_register_read")
  /\ IF ok THEN Continue(Tail(gui_todo)) ELSE Continue(CommErrorTodo)
  /\ UNCHANGED <<clicks, selected_port, serial_port, calibration_port, timers, h_open, workers,
                 worker, poller, updater, bl_updater, gui_queue, run_vars>>

\* _read_register: None without a port or on a SerialException, else the
\* write of the request
UMVH_read_register(raised) ==
  /\ At("read_register")
  /\ (serial_port # 0 /\ ~h_open[serial_port]) => raised
  /\ IF serial_port = 0 \/ raised THEN Continue(CommErrorTodo)
     ELSE Continue(<<"read_register_read">> \o Tail(gui_todo))
  /\ UNCHANGED <<clicks, selected_port, serial_port, calibration_port, timers, h_open, workers,
                 worker, poller, updater, bl_updater, gui_queue, run_vars>>

\* _read_register: the read of the reply; not ok: _handle_comm_error
UMVH_read_register_read(ok) ==
  /\ At("read_register_read")
  /\ IF ok THEN Continue(Tail(gui_todo)) ELSE Continue(CommErrorTodo)
  /\ UNCHANGED <<clicks, selected_port, serial_port, calibration_port, timers, h_open, workers,
                 worker, poller, updater, bl_updater, gui_queue, run_vars>>

\* start_firmware_update: stop_polling, then (below) the worker is started
UMVH_start_firmware_update ==
  /\ GuiIdleLoop
  /\ Click
  /\ serial_port # 0
  /\ workers' = StopFlag(workers, poller)
  /\ gui_handler' = "start_firmware_update"
  /\ gui_todo' = <<"wait_poll", "start_updater">>
  /\ UNCHANGED <<selected_port, serial_port, calibration_port, timers, h_open,
                 worker, poller, updater, bl_updater, gui_queue, run_vars>>

\* start_firmware_update: a new FirmwareUpdateWorker on self.serial_port
UMVH_start_firmware_update_thread ==
  /\ At("start_updater")
  /\ FreeWorkers # {}
  /\ workers' = [workers EXCEPT ![NewWorkerId] = NewWorker("updater", "file", serial_port)]
  /\ updater' = NewWorkerId
  /\ Continue(Tail(gui_todo))
  /\ UNCHANGED <<clicks, selected_port, serial_port, calibration_port, timers, h_open,
                 worker, poller, bl_updater, gui_queue, run_vars>>

\* update_finished(success): a 5 s timer for _finish_success or _finish_failure
UMVH_update_finished ==
  /\ GuiIdleLoop
  /\ gui_queue # <<>> /\ Head(gui_queue) \in {"update_ok", "update_failed"}
  /\ Len(timers) < MaxQueue
  /\ gui_queue' = Tail(gui_queue)
  /\ timers' = Append(timers, IF Head(gui_queue) = "update_ok"
                              THEN "_finish_success" ELSE "_finish_failure")
  /\ UNCHANGED <<clicks, selected_port, serial_port, calibration_port, gui_handler, gui_todo,
                 h_open, workers, worker, poller, updater, bl_updater, run_vars>>

\* _finish_success: start_polling
UMVH_finish_success ==
  /\ GuiIdleLoop
  /\ timers # <<>> /\ Head(timers) = "_finish_success"
  /\ timers' = Tail(timers)
  /\ StartPolling(serial_port, workers)
  /\ UNCHANGED <<clicks, selected_port, serial_port, calibration_port, gui_handler, gui_todo,
                 h_open, worker, updater, bl_updater, gui_queue, run_vars>>

\* _finish_failure: start_polling
UMVH_finish_failure ==
  /\ GuiIdleLoop
  /\ timers # <<>> /\ Head(timers) = "_finish_failure"
  /\ timers' = Tail(timers)
  /\ StartPolling(serial_port, workers)
  /\ UNCHANGED <<clicks, selected_port, serial_port, calibration_port, gui_handler, gui_todo,
                 h_open, worker, updater, bl_updater, gui_queue, run_vars>>

\* start_bootloader_update: stop_polling, then (below) the rest
UMVH_start_bootloader_update ==
  /\ GuiIdleLoop
  /\ Click
  /\ selected_port
  /\ workers' = StopFlag(workers, poller)
  /\ gui_handler' = "start_bootloader_update"
  /\ gui_todo' = <<"wait_poll", "start_boot">>
  /\ UNCHANGED <<selected_port, serial_port, calibration_port, timers, h_open,
                 worker, poller, updater, bl_updater, gui_queue, run_vars>>

\* start_bootloader_update: serial_port.close(), self.serial_port = None, a
\* new BootloaderUpdateWorker that opens the selected port itself
UMVH_start_bootloader_update_thread ==
  /\ At("start_boot")
  /\ FreeWorkers # {}
  /\ serial_port' = 0
  /\ workers' = [workers EXCEPT ![NewWorkerId] = NewWorker("boot", "open", 0)]
  /\ h_open' = Collect(IF serial_port = 0 THEN h_open
                       ELSE [h_open EXCEPT ![serial_port] = FALSE], 0, workers')
  /\ bl_updater' = NewWorkerId
  /\ Continue(Tail(gui_todo))
  /\ UNCHANGED <<clicks, selected_port, calibration_port, timers, worker, poller, updater,
                 gui_queue, run_vars>>

\* boot_update_finished(success): a 5 s timer for _boot_finish_reset
UMVH_boot_update_finished ==
  /\ GuiIdleLoop
  /\ gui_queue # <<>> /\ Head(gui_queue) = "boot_update_finished"
  /\ Len(timers) < MaxQueue
  /\ gui_queue' = Tail(gui_queue)
  /\ timers' = Append(timers, "_boot_finish_reset")
  /\ UNCHANGED <<clicks, selected_port, serial_port, calibration_port, gui_handler, gui_todo,
                 h_open, workers, worker, poller, updater, bl_updater, run_vars>>

\* _boot_finish_reset: self.bl_updater = None
UMVH_boot_finish_reset ==
  /\ GuiIdleLoop
  /\ timers # <<>> /\ Head(timers) = "_boot_finish_reset"
  /\ timers' = Tail(timers)
  /\ bl_updater' = 0
  /\ UNCHANGED <<clicks, selected_port, serial_port, calibration_port, gui_handler, gui_todo,
                 h_open, workers, worker, poller, updater, gui_queue, run_vars>>

RECURSIVE Writes(_)
Writes(n) == IF n = 0 THEN <<>> ELSE <<"write_register">> \o Writes(n - 1)

\* apply_settings: nser changed serial-setting registers and, with pwd, the
\* password are written one after the other; then _apply_new_serial when a
\* serial setting was among them
UMVH_apply_settings(nser, pwd) ==
  /\ GuiIdleLoop
  /\ Click
  /\ serial_port # 0
  /\ nser > 0 \/ pwd
  /\ gui_handler' = "apply_settings"
  /\ gui_todo' = Writes(nser + (IF pwd THEN 1 ELSE 0))
                   \o (IF nser > 0 THEN <<"_apply_new_serial">> ELSE <<>>)
  /\ UNCHANGED <<selected_port, serial_port, calibration_port, timers, h_open, workers,
                 worker, poller, updater, bl_updater, gui_queue, run_vars>>

\* _apply_new_serial: serial_port.close(), a new serial.Serial (when it
\* raises: _handle_comm_error), stop_polling, start_polling
UMVH_apply_new_serial(opened) ==
  /\ At("_apply_new_serial")
  /\ IF opened
     THEN /\ FreeHandles # {}
          /\ serial_port' = NewHandleId
          /\ h_open' = Collect([h_open EXCEPT ![serial_port] = FALSE, ![NewHandleId] = TRUE],
                               NewHandleId, workers)
          /\ workers' = StopFlag(workers, poller)
          /\ Continue(<<"wait_poll", "start_polling">>)
     ELSE /\ h_open' = [h_open EXCEPT ![serial_port] = FALSE]
          /\ Continue(CommErrorTodo)
          /\ UNCHANGED <<serial_port, workers>>
  /\ UNCHANGED <<clicks, selected_port, calibration_port, timers, worker, poller, updater,
                 bl_updater, gui_queue, run_vars>>

\* _confirm_two_point_port: the sensor type is read, the port binding is
\* written, then (below) the target is remembered
UMVH_confirm_two_point_port ==
  /\ GuiIdleLoop
  /\ Click
  /\ gui_handler' = "_confirm_two_point_port"
  /\ gui_todo' = <<"read_register", "write_register", "remember">>
  /\ UNCHANGED <<selected_port, serial_port, calibration_port, timers, h_open, workers,
                 worker, poller, updater, bl_updater, gui_queue, run_vars>>

\* _remember_calibration_target: self._calibration_port = port
UMVH_remember_calibration_target ==
  /\ At("remember")
  /\ calibration_port' = TRUE
  /\ Continue(Tail(gui_todo))
  /\ UNCHANGED <<clicks, selected_port, serial_port, timers, h_open, workers,
                 worker, poller, updater, bl_updater, gui_queue, run_vars>>

\* _two_point_commit_y1: Y1 is written to the device
UMVH_two_point_commit_y1 ==
  /\ GuiIdleLoop
  /\ Click
  /\ calibration_port
  /\ gui_handler' = "_two_point_commit_y1"
  /\ gui_todo' = <<"write_register">>
  /\ UNCHANGED <<selected_port, serial_port, calibration_port, timers, h_open, workers,
                 worker, poller, updater, bl_updater, gui_queue, run_vars>>

\* reset_application_state: worker.stop(); the waits and the other workers
\* follow (below)
ResetTodo == <<"wait_worker", "reset_updater", "wait_update", "reset_boot", "wait_boot",
               "stop_polling", "wait_poll", "reset_close">>

UMVH_reset_application_state ==
  /\ GuiIdleLoop
  /\ Click
  /\ workers' = StopFlag(workers, worker)
  /\ gui_handler' = "reset_application_state"
  /\ gui_todo' = ResetTodo
  /\ UNCHANGED <<selected_port, serial_port, calibration_port, timers, h_open,
                 worker, poller, updater, bl_updater, gui_queue, run_vars>>

\* reset_application_state: self.worker = None, updater.stop()
UMVH_reset_application_state_updater ==
  /\ At("reset_updater")
  /\ worker' = 0
  /\ workers' = StopFlag(workers, updater)
  /\ Continue(Tail(gui_todo))
  /\ UNCHANGED <<clicks, selected_port, serial_port, calibration_port, timers, h_open,
                 poller, updater, bl_updater, gui_queue, run_vars>>

\* reset_application_state: self.updater = None, bl_updater.stop()
UMVH_reset_application_state_boot ==
  /\ At("reset_boot")
  /\ updater' = 0
  /\ workers' = StopFlag(workers, bl_updater)
  /\ Continue(Tail(gui_todo))
  /\ UNCHANGED <<clicks, selected_port, serial_port, calibration_port, timers, h_open,
                 worker, poller, bl_updater, gui_queue, run_vars>>

\* reset_application_state: self.poller = None, serial_port.close(),
\* self.serial_port = None, the calibration state cleared,
\* populate_com_ports
UMVH_reset_application_state_close ==
  /\ At("reset_close")
  /\ poller' = 0
  /\ serial_port' = 0
  /\ h_open' = Collect(IF serial_port = 0 THEN h_open
                       ELSE [h_open EXCEPT ![serial_port] = FALSE], 0, workers)
  /\ calibration_port' = FALSE
  /\ selected_port' \in BOOLEAN
  /\ Continue(Tail(gui_todo))
  /\ UNCHANGED <<clicks, timers, workers, worker, updater, bl_updater, gui_queue, run_vars>>

\* closeEvent: stop_polling, the waits for the update threads and
\* serial_port.close() as in _handle_comm_error; the event loop then ends
\* ("exit" is never left)
UMVH_closeEvent ==
  /\ GuiIdleLoop
  /\ Click
  /\ gui_handler' = "closeEvent"
  /\ gui_todo' = CommErrorTodo \o <<"exit">>
  /\ UNCHANGED <<selected_port, serial_port, calibration_port, timers, h_open, workers,
                 worker, poller, updater, bl_updater, gui_queue, run_vars>>

\* ------------------------------------------------------------------------
\* The GUI with its workers
\* ------------------------------------------------------------------------
Replies == {"ok", "bad", "raise"}

\* No firmware run is followed.
FwIdle ==
  /\ fw_kind = "main"
  /\ skip_start = FALSE
  /\ slave_id = 1
  /\ fw_file = <<>>
  /\ pre_cfg = DEFAULT_CFG
  /\ fw_pc = "done"
  /\ fw_running = FALSE
  /\ firmware_data = <<>>
  /\ total_packets = 0
  /\ fw_i = 0
  /\ fw_attempt = 0
  /\ first_ack = FALSE
  /\ orig_cfg = NoCfg
  /\ port_cfg = DEFAULT_CFG
  /\ ser_open = FALSE
  /\ fw_log = <<>>
  /\ fw_events = <<>>
  /\ stop_idx = -1

InitGui == GuiIdle /\ FwIdle /\ RpIdle /\ AcIdle /\ ExtIdle

WorkerStep(w) ==
  \/ \E raised \in BOOLEAN : RegisterPoller_run(w, raised)
  \/ \E raised \in BOOLEAN : RegisterPoller_run_status(w, raised)
  \/ \E res \in Replies : RegisterPoller_read_registers(w, res)
  \/ \E opened \in BOOLEAN : AutoConnectWorker_run_open(w, opened)
  \/ \E raised \in BOOLEAN : AutoConnectWorker_run(w, raised)
  \/ \E res \in Replies : AutoConnectWorker_run_read(w, res)
  \/ \E ok \in BOOLEAN : GuiFw_run_open(w, ok)
  \/ \E raised \in BOOLEAN : GuiFw_send_start_write(w, raised)
  \/ \E acked \in BOOLEAN : GuiFw_send_start_read(w, acked)
  \/ \E raised \in BOOLEAN : GuiFw_run_switch(w, raised)
  \/ \E more \in BOOLEAN : GuiFw_run_loop(w, more)
  \/ \E raised, exhausted \in BOOLEAN : GuiFw_send_packet_write(w, raised, exhausted)
  \/ \E acked, exhausted \in BOOLEAN : GuiFw_send_packet_read(w, acked, exhausted)
  \/ \E ok \in BOOLEAN : GuiBoot_run_open(w, ok)
  \/ \E more \in BOOLEAN : GuiBoot_run_loop(w, more)
  \/ \E raised, exhausted \in BOOLEAN : GuiBoot_send_packet_write(w, raised, exhausted)
  \/ \E acked, exhausted \in BOOLEAN : GuiBoot_send_packet_read(w, acked, exhausted)

NextGui ==
  \/ \E w \in WorkerIds : WorkerStep(w)
  \/ UMVH_start_auto_connect
  \/ UMVH_stop_auto_connect
  \/ UMVH_wait_worker
  \/ UMVH_stop_polling
  \/ UMVH_stop_polling_wait
  \/ UMVH_start_polling
  \/ \E opened \in BOOLEAN : UMVH_auto_connect_finished(opened)
  \/ UMVH_manual_connect
  \/ \E valid, opened \in BOOLEAN : UMVH_manual_connect_read(valid, opened)
  \/ UMVH_handle_comm_error
  \/ UMVH_handle_comm_error_wait_update
  \/ UMVH_handle_comm_error_wait_boot
  \/ UMVH_handle_comm_error_close
  \/ \E raised \in BOOLEAN : UMVH_write_register(raised)
  \/ \E ok \in BOOLEAN : UMVH_write_register_read(ok)
  \/ \E raised \in BOOLEAN : UMVH_read_register(raised)
  \/ \E ok \in BOOLEAN : UMVH_read_register_read(ok)
  \/ UMVH_start_firmware_update
  \/ UMVH_start_firmware_update_thread
  \/ UMVH_update_finished
  \/ UMVH_finish_success
  \/ UMVH_finish_failure
  \/ UMVH_start_bootloader_update
  \/ UMVH_start_bootloader_update_thread
  \/ UMVH_boot_update_finished
  \/ UMVH_boot_finish_reset
  \/ \E nser \in 0..MaxSettingWrites, pwd \in BOOLEAN : UMVH_apply_settings(nser, pwd)
  \/ \E opened \in BOOLEAN : UMVH_apply_new_serial(opened)
  \/ UMVH_confirm_two_point_port
  \/ UMVH_remember_calibration_target
  \/ UMVH_two_point_commit_y1
  \/ UMVH_reset_application_state
  \/ UMVH_reset_application_state_updater
  \/ UMVH_reset_application_state_boot
  \/ UMVH_reset_application_state_close
  \/ UMVH_closeEvent

SpecGui == InitGui /\ [][NextGui]_vars

\* ------------------------------------------------------------------------
\* Observations on a run
\* ------------------------------------------------------------------------
\* Positions of the chunk frames in the port log.
ChunkPos == {k \in 1..Len(fw_log) : fw_log[k].op = "chunk"}

\* The position of the next chunk frame after position k (0: none).
NextChunkPos(k) ==
  IF \E j \in ChunkPos : j > k
  THEN CHOOSE j \in ChunkPos : j > k /\ \A m \in ChunkPos : m > k => j <= m
  ELSE 0

\* The attempt at position k was answered by an acknowledgement.
EntryAcked(k) ==
  \/ fw_log[k].res = "read" /\ fw_log[k].n >= 4
  \/ fw_log[k].res = "ok"

\* The attempt at position k is over and was not acknowledged ("raise", an
\* exception of execute that send_firmware does not catch, ends the call
\* instead of failing the attempt).
EntryFailed(k) ==
  \/ fw_log[k].res \in {"werr", "rerr", "none"}
  \/ fw_log[k].res = "read" /\ fw_log[k].n < 4

\* The attempt at position k got a read of fewer than 4 bytes.
EntryShortRead(k) == fw_log[k].res = "read" /\ fw_log[k].n < 4

AttemptsOf(idx) == {k \in ChunkPos : fw_log[k].frame.idx = idx}

FinishedEmitted == \E k \in 1..Len(fw_events) : fw_events[k].sig = "finished"

LastEvent == fw_events[Len(fw_events)]

RunEnded(ok) ==
  /\ fw_pc = "done"
  /\ Len(fw_events) > 0
  /\ LastEvent.sig = "finished"
  /\ LastEvent.ok = ok

\* The run reached the switch to the update configuration.
ReachedSwitch == \E k \in 1..Len(fw_log) : fw_log[k].op = "switch"

\* ------------------------------------------------------------------------
\* Observations on the owners of the link
\* ------------------------------------------------------------------------
\* Worker w has written a request to an open port and its read is outstanding.
WorkerInTransaction(w) ==
  /\ workers[w].st \in {"tx", "tx1", "tx2", "start_tx", "pkt_tx"}
  /\ workers[w].h # 0 => h_open[workers[w].h]

PollersRunning == {w \in WorkerIds : workers[w].type = "poller"}

FirmwareWorkersRunning == {w \in WorkerIds : workers[w].type \in {"updater", "boot"}}

CalibrationHandlers == {"_confirm_two_point_port", "_two_point_commit_y1"}

\* ------------------------------------------------------------------------
\* C1: at most one of AutoConnectWorker, RegisterPoller, FirmwareUpdateWorker,
\* BootloaderUpdateWorker and the GUI-thread register transactions has a
\* request/reply transaction in progress on the serial port at any time.
\* Stated for the register writes of apply_settings: while one of them
\* awaits its reply, no worker awaits a reply.
\* ------------------------------------------------------------------------
C1_OneTransactionAtATime ==
  (gui_handler = "apply_settings" /\ GuiInTransaction)
    => \A w \in WorkerIds : ~WorkerInTransaction(w)

\* ------------------------------------------------------------------------
\* C2: RegisterPoller is stopped before the calibration handlers perform
\* their register transactions: no poller transaction is in flight while a
\* calibration request awaits its reply.
\* ------------------------------------------------------------------------
C2_NoPollingDuringCalibration ==
  (gui_handler \in CalibrationHandlers /\ GuiInTransaction)
    => \A w \in PollersRunning : ~WorkerInTransaction(w)

\* ------------------------------------------------------------------------
\* C3: while FirmwareUpdateWorker.run or BootloaderUpdateWorker.run is
\* executing no RegisterPoller loop is running: polling is stopped before
\* the worker thread is started, and no GUI operation started during the
\* transfer starts polling again.  Stated for apply_settings, the operation
\* the claim names: while a firmware worker runs, no step of apply_settings
\* adds a poller.
\* ------------------------------------------------------------------------
C3_NoPollingDuringUpdate ==
  [][(FirmwareWorkersRunning # {} /\ gui_handler = "apply_settings")
       => (\A w \in WorkerIds : workers'[w].type = "poller" => workers[w].type = "poller")]_vars

\* ------------------------------------------------------------------------
\* C4: in every FirmwareUpdateWorker run that reaches the switch to the
\* update configuration, the port's (baudrate, bytesize, parity, stopbits)
\* at the moment finished is emitted equal the values captured before the
\* switch, however the run ends.
\* ------------------------------------------------------------------------
C4_RestoredWhenFinished ==
  (fw_kind = "main" /\ fw_pc = "done" /\ ReachedSwitch)
    => LastEvent.cfg = orig_cfg

\* ------------------------------------------------------------------------
\* C5: after stop() is called during a FirmwareUpdateWorker run, no chunk
\* with an index greater than the chunk in flight is transmitted, the run
\* emits finished(False), and the pre-transfer configuration has been
\* restored before that signal.
\* ------------------------------------------------------------------------
C5_CancelAbortsRestored ==
  (/\ fw_kind = "main" /\ fw_pc = "done" /\ stop_idx >= 0
   /\ \A k \in 1..Len(fw_log) : fw_log[k].res \notin {"werr", "rerr", "raise"})
    => /\ \A k \in ChunkPos : fw_log[k].frame.idx <= stop_idx
       /\ RunEnded(FALSE)
       /\ LastEvent.cfg = pre_cfg

\* ------------------------------------------------------------------------
\* C6: if for some chunk the acknowledgement read returns fewer than 4 bytes
\* on all 3 attempts, the run emits finished(False) and, when it does, baud
\* rate, data bits, parity and stop bits equal their pre-transfer values.
\* ------------------------------------------------------------------------
\* Some chunk of a FirmwareUpdateWorker run got three short reads.
ThreeShortReads ==
  /\ fw_kind = "main"
  /\ \E idx \in 1..total_packets :
       /\ Cardinality(AttemptsOf(idx)) = 3
       /\ \A k \in AttemptsOf(idx) : EntryShortRead(k)

C7_AscendingOneInFlight ==
  /\ \A k \in 1..Len(fw_log) : fw_log[k].res = "pending" => k = Len(fw_log)
  /\ \A k \in ChunkPos :
       LET idx == fw_log[k].frame.idx
           nx == NextChunkPos(k)
       IN /\ (\A j \in ChunkPos : k <= j) => idx = 1
          /\ nx # 0 =>
               /\ fw_log[nx].frame.idx \in {idx, idx + 1}
               /\ fw_log[nx].frame.idx = idx + 1 <=> EntryAcked(k)
          /\ \A j \in ChunkPos : j > k => fw_log[j].frame.idx >= idx

C7_Witness ==
  \E k \in ChunkPos :
    /\ fw_log[k].frame.idx = 1 /\ EntryFailed(k)
    /\ \E j \in ChunkPos : j > k /\ fw_log[j].frame.idx = 2 /\ EntryAcked(j)

\* ------------------------------------------------------------------------
\* C8: for an image of length L and payload size P = 84 every chunk frame
\* carries totalChunks = N = ceil(L / P), chunk i carries the image bytes
\* [(i-1)*P, min(i*P, L)), only the last payload may be shorter than P, and
\* a successful transfer transmits exactly the chunks 1..N, whose payloads
\* concatenated in index order equal the image.
\* ------------------------------------------------------------------------
\* ceil(L / 84), by its defining inequalities.
CeilChunks(L) == CHOOSE n \in 0..L : n * 84 >= L /\ (n = 0 \/ (n - 1) * 84 < L)

\* The image bytes [(i-1)*84, min(i*84, L)).
ImageSlice(i) ==
  LET lo == (i - 1) * 84
      hi == Min(i * 84, Len(fw_file))
  IN [j \in 1..(hi - lo) |-> fw_file[lo + j]]

RECURSIVE AckedPayloads(_)
AckedPayloads(k) ==
  IF k = 0 THEN <<>>
  ELSE AckedPayloads(k - 1) \o
       (IF fw_log[k].op = "chunk" /\ EntryAcked(k) THEN fw_log[k].frame.payload ELSE <<>>)

C8_ChunksCoverImage ==
  LET N == CeilChunks(Len(fw_file)) IN
  /\ \A k \in ChunkPos :
       LET f == fw_log[k].frame IN
       /\ f.total = N
       /\ f.idx \in 1..N
       /\ f.payload = ImageSlice(f.idx)
       /\ Len(f.payload) \in 1..84
       /\ f.idx < N => Len(f.payload) = 84
  /\ RunEnded(TRUE) =>
       /\ {fw_log[k].frame.idx : k \in ChunkPos} = 1..N
       /\ \A i \in 1..N : Cardinality({k \in AttemptsOf(i) : EntryAcked(k)}) = 1
       /\ AckedPayloads(Len(fw_log)) = fw_file

C8_Witness ==
  /\ RunEnded(TRUE)
  /\ Len(fw_file) = 85
  /\ Cardinality({fw_log[k].frame.idx : k \in ChunkPos}) = 2
  /\ \E k \in ChunkPos : fw_log[k].frame.idx = 2 /\ Len(fw_log[k].frame.payload) = 1

\* ------------------------------------------------------------------------
\* C9: each chunk is transmitted at most 3 times; an attempt is acknowledged
\* exactly when its read returns at least 4 bytes and fails on fewer bytes
\* or an I/O error; attempt k+1 of a chunk is made only after attempt k
\* failed; when all 3 attempts of a chunk failed no later chunk is
\* transmitted and the run ends with finished(False).
\* ------------------------------------------------------------------------
\* All three attempts of chunk idx failed.
Exhausted(idx) ==
  /\ Cardinality(AttemptsOf(idx)) = 3
  /\ \A k \in AttemptsOf(idx) : EntryFailed(k)

StartAcknowledged ==
  /\ Len(fw_log) >= 1
  /\ fw_log[1].op = "start"
  /\ fw_log[1].frame.func = 43
  /\ fw_log[1].res = "read" /\ fw_log[1].n >= 4

C10_StartBeforeTransfer ==
  fw_kind = "main" =>
    /\ \A k \in 1..Len(fw_log) : fw_log[k].op = "start" <=> k = 1
    /\ (\E k \in 1..Len(fw_log) : fw_log[k].op \in {"chunk", "switch", "restore"})
         => StartAcknowledged
    /\ port_cfg # pre_cfg => StartAcknowledged
    /\ fw_pc \in {"sleep7", "switch", "loop", "pkt_write", "pkt_read", "pkt_sleep"}
         => StartAcknowledged
    /\ Len(fw_log) >= 2 => fw_log[2].op = "switch"
    /\ (Len(fw_log) >= 1 /\ fw_log[1].res # "pending" /\ ~StartAcknowledged) =>
         /\ Len(fw_log) = 1
         /\ RunEnded(FALSE)
         /\ Len(fw_events) = 1
         /\ port_cfg = pre_cfg

C10_Witness ==
  /\ fw_kind = "main"
  /\ StartAcknowledged
  /\ Len(fw_log) >= 3
  /\ fw_log[2].op = "switch" /\ fw_log[3].op = "chunk"
  /\ port_cfg # pre_cfg

\* ------------------------------------------------------------------------
\* C11: every run of a firmware worker (FirmwareUpdateWorker and
\* BootloaderUpdateWorker of main.py, send_firmware under
\* FirmwareUpdateWorker.run of firmware_update.py) ends with exactly one
\* finished signal: when run has returned or was left by an exception,
\* finished was emitted once and is the last event; no event follows a
\* finished; finished(True) is emitted only with all N chunks acknowledged.
\* ------------------------------------------------------------------------
FinishedPos == {k \in 1..Len(fw_events) : fw_events[k].sig = "finished"}

C11_ExactlyOneFinished ==
  /\ \A k \in FinishedPos : k = Len(fw_events)
  /\ fw_pc \in {"done", "crashed"} => Cardinality(FinishedPos) = 1
  /\ (FinishedPos # {} /\ LastEvent.ok) =>
       \A i \in 1..total_packets : \E k \in AttemptsOf(i) : EntryAcked(k)

\* ------------------------------------------------------------------------
\* C12: in FirmwareUpdateWorker (main.py) and send_firmware the step that
\* acknowledges chunk i reports one progress event with percent =
\* floor(i * 100 / N); a reported status text is non-empty only if no chunk
\* was acknowledged before; percent = 100 is reported only with the final
\* chunk N acknowledged, for every image length, the empty image included.
\* ------------------------------------------------------------------------
\* The events the step reports.
NewEvents == {k \in 1..Len(fw_events') : k > Len(fw_events)}

\* p = floor(i * 100 / n), by its defining inequalities.
IsFloorPercent(p, i, n) == p * n <= i * 100 /\ i * 100 < (p + 1) * n

C12_Step ==
  fw_kind \in {"main", "lib"} =>
    /\ \A k \in NewEvents :
         (fw_events'[k].sig = "progress") =>
           /\ (fw_events'[k].pct = 100) => (fw_i' = total_packets')
           /\ (fw_events'[k].pct < 100) => (fw_i' < total_packets' \/ total_packets' = 0)
           /\ (fw_events'[k].msg # "") => (fw_i = 0)
    /\ (fw_i' = fw_i + 1) =>
         /\ fw_events' = Append(fw_events, fw_events'[Len(fw_events')])
         /\ fw_events'[Len(fw_events')].sig = "progress"
         /\ IsFloorPercent(fw_events'[Len(fw_events')].pct, fw_i', total_packets')

\* C12: every step of FirmwareUpdateWorker (main.py) and of send_firmware
\* reports floor(i*100/N) right after the acknowledgement of chunk i, a
\* non-empty status text only while no chunk was acknowledged before, and
\* 100 percent only once all N chunks are acknowledged.
C12_ProgressAfterEachChunk == [][C12_Step]_vars

C12_Witness ==
  /\ fw_kind = "main"
  /\ RunEnded(TRUE)
  /\ total_packets = 2
  /\ Len(fw_events) = 3
  /\ fw_events[1].pct = 50 /\ fw_events[2].pct = 100
  /\ \E k \in AttemptsOf(1) : EntryFailed(k)

\* ------------------------------------------------------------------------
\* How far the run of a FirmwareUpdateWorker has got: the image is being
\* read (0), the start frame is to be written (1), it is written and its
\* acknowledgement awaited (2), acknowledged (3), chunks are sent (4).
RunRank(st) ==
  CASE st = "file" -> 0
    [] st = "start" -> 1
    [] st = "start_tx" -> 2
    [] st = "sleep" -> 3
    [] OTHER -> 4

Updaters(ws) == {w \in WorkerIds : ws[w].type = "updater"}

C13_Step ==
  /\ \A w \in Updaters(workers') \ Updaters(workers) :
       gui_handler = "start_firmware_update" /\ workers'[w].st = "file"
  /\ (gui_handler' = "start_firmware_update" /\ gui_handler # "start_firmware_update")
       => clicks' = clicks + 1
  /\ \A w \in Updaters(workers') \cap Updaters(workers) :
       /\ RunRank(workers'[w].st) >= RunRank(workers[w].st)
       /\ RunRank(workers[w].st) < 3 =>
            RunRank(workers'[w].st) <= RunRank(workers[w].st) + 1
  /\ (Len(gui_queue') > Len(gui_queue)
        /\ gui_queue'[Len(gui_queue')] = "update_failed")
       => /\ Updaters(workers') \subseteq Updaters(workers)
          /\ Updaters(workers') # Updaters(workers)

\* C13: a FirmwareUpdateWorker run walks once through its start-frame write
\* (never back to it, never past it without it), the step that emits
\* finished(False) ends the run, and a run is begun only inside
\* start_firmware_update, which only an operator action enters: neither
\* update_finished nor _finish_failure begins one.
C13_FailureIsTerminal == [][C13_Step]_vars

\* _finish_failure is due after a failed run, and no run is in progress.
C13_Witness ==
  /\ timers # <<>> /\ Head(timers) = "_finish_failure"
  /\ Updaters(workers) = {}
  /\ poller = DEAD

\* ------------------------------------------------------------------------
\* A worker thread that can take a step takes one: every port read returns
\* within its timeout (timeout=1 on the link), every sleep ends, and the
\* scheduler runs the thread.
SpecFwFair == SpecFw /\ WF_vars(NextFw)

StartPos == {k \in 1..Len(fw_log) : fw_log[k].op = "start"}

\* C14: a run of FirmwareUpdateWorker or BootloaderUpdateWorker (main.py)
\* writes at most one start frame and at most 3 * N chunk frames, and
\* whatever the device does it ends with finished emitted.
C14_RunTerminates ==
  /\ [](fw_kind \in {"main", "boot"} =>
          /\ Cardinality(StartPos) <= 1
          /\ Cardinality(ChunkPos) <= 3 * TotalPackets(Len(fw_file)))
  /\ fw_kind \in {"main", "boot"} => <>(fw_pc = "done" /\ FinishedEmitted)

\* The longest failing run: chunk 1 acknowledged on its last attempt, chunk
\* 2 never.
C14_Witness ==
  /\ fw_kind = "main" /\ RunEnded(FALSE)
  /\ total_packets = 2
  /\ Cardinality(StartPos) = 1
  /\ Cardinality(ChunkPos) = 3 * total_packets

\* ------------------------------------------------------------------------
\* Bytes, CRC-16 and register frames
\* ------------------------------------------------------------------------
REG_SENSOR_TYPE_BASE == 10
REG_SENSOR_TYPE_COUNT == 8
REG_SENSOR_READ_COUNT == 8
REG_SENSOR_POLL_COUNT == REG_SENSOR_TYPE_COUNT + REG_SENSOR_READ_COUNT
REG_CAL_STATUS_START == 31
REG_CAL_STATUS_COUNT == 8

\* _read_registers calls one run of the poller may make.
MaxPollCalls == 7

\* a ^ b on non-negative integers
RECURSIVE Xor(_, _)
Xor(a, b) ==
  IF a = 0 THEN b
  ELSE IF b = 0 THEN a
  ELSE ((a + b) % 2) + 2 * Xor(a \div 2, b \div 2)

\* x ^ bit for a power of two
Flip(x, bit) == IF (x \div bit) % 2 = 1 THEN x - bit ELSE x + bit

\* crc ^= 0xA001, with the polynomial of the mutant below
XorPoly_8005(x) == Flip(Flip(Flip(x, 32768), 4), 1)

\* crc ^= 0xA001
XorPoly(x) == Flip(Flip(Flip(x, 32768), 8192), 1)

\* AutoConnectWorker._calc_crc: the inner loop, k shifts to go
RECURSIVE CrcShift(_, _)
CrcShift(crc, k) ==
  IF k = 0 THEN crc
  ELSE LET shifted == IF crc % 2 = 1 THEN XorPoly(crc \div 2) ELSE crc \div 2
       IN IF shifted >= 0 THEN CrcShift(shifted, k - 1) ELSE 0

\* AutoConnectWorker._calc_crc: the outer loop, from byte k of data on
RECURSIVE CrcFrom(_, _, _)
CrcFrom(crc, data, k) ==
  IF k > Len(data) THEN crc
  ELSE LET next == CrcShift(Xor(crc, data[k]), 8)
       IN IF next >= 0 THEN CrcFrom(next, data, k + 1) ELSE 0

\* AutoConnectWorker._calc_crc
calc_crc(data) == CrcFrom(65535, data, 1)

\* _check_crc: int.from_bytes(packet[-2:], "little") == _calc_crc(packet[:-2]),
\* for a packet of two bytes or more
check_crc(packet) ==
  LET n == Len(packet) IN
  packet[n - 1] + 256 * packet[n] = calc_crc(SubSeq(packet, 1, n - 2))

\* int.from_bytes(resp[3 + i * 2 : 5 + i * 2], "little"), i counted from 0
RegAt_little(packet, i) == packet[4 + 2 * i] + 256 * packet[5 + 2 * i]

\* int.from_bytes(resp[3 + i * 2 : 5 + i * 2], "big"), i counted from 0
RegAt(packet, i) == packet[4 + 2 * i] * 256 + packet[5 + 2 * i]

\* [int.from_bytes(resp[3 + i * 2 : 5 + i * 2], "big") for i in range(count)]
Regs(packet, count) == [i \in 1..count |-> RegAt(packet, i - 1)]

\* The frame with its checksum appended: crc.to_bytes(2, "little")
WithCrc(body) ==
  LET crc == calc_crc(body) IN body \o <<crc % 256, crc \div 256>>

\* The last byte of a frame damaged on the line.
Corrupt(packet) == [packet EXCEPT ![Len(packet)] = (@ + 1) % 256]

\* ------------------------------------------------------------------------
\* The device's answers to a register read
\* ------------------------------------------------------------------------
\* Two contents of the device's registers; register addr holds a value
\* whose high byte is addr and whose low byte tells the contents apart.
DevSeeds == {0, 1}
DevReg(seed, addr) == 256 * addr + seed

\* The answer the poller expects to `count` registers from start_addr:
\* 3 header bytes, count * 2 data bytes, 2 checksum bytes.
ReadReply(seed, start_addr, count) ==
  WithCrc(<<1, 3, 2 * count>> \o
          [j \in 1..(2 * count) |->
             LET v == DevReg(seed, start_addr + ((j - 1) \div 2))
             IN IF j % 2 = 1 THEN v \div 256 ELSE v % 256])

\* What a read of the answer may return: the answer, nothing, the answer
\* short of its last byte, the answer with a damaged byte.
RepliesTo(start_addr, count) ==
  {ReadReply(s, start_addr, count) : s \in DevSeeds}
    \cup { <<>>,
           SubSeq(ReadReply(0, start_addr, count), 1, 4 + 2 * count),
           Corrupt(ReadReply(0, start_addr, count)) }

SensorReplies == RepliesTo(REG_SENSOR_TYPE_BASE, REG_SENSOR_POLL_COUNT)
StatusReplies == RepliesTo(REG_CAL_STATUS_START, REG_CAL_STATUS_COUNT)

\* ------------------------------------------------------------------------
\* RegisterPoller (main.py): one run
\* ------------------------------------------------------------------------
rp_params == <<rp_slave_id, fw_vars, gui_vars, ac_vars, ext_vars>>

\* The arguments run passes to _read_registers.
StartAddr(call) == IF call = "sensor" THEN REG_SENSOR_TYPE_BASE ELSE REG_CAL_STATUS_START
Count(call) == IF call = "sensor" THEN REG_SENSOR_POLL_COUNT ELSE REG_CAL_STATUS_COUNT

PollEntry(call, res) ==
  [call |-> call, start_addr |-> StartAddr(call), count |-> Count(call), res |-> res]

Signal(sig) == [sig |-> sig]

\* run: while self._running, and the first _read_registers call of a cycle
RegisterPoller_run_loop ==
  /\ rp_pc = "loop"
  /\ IF rp_running
     THEN /\ Len(rp_log) < MaxPollCalls
          /\ rp_pc' = "write"
          /\ rp_call' = "sensor"
     ELSE /\ rp_pc' = "done"
          /\ UNCHANGED rp_call
  /\ UNCHANGED <<rp_params, rp_running, fail_count, sensor_regs, resp, rp_log,
                 rp_events, data_ready_args, rp_stopped>>

SetRes(log, res) == [log EXCEPT ![Len(log)].res = res]

\* the handler without self._running = False
RegisterPoller_read_registers_except_goes_on ==
  /\ rp_events' = Append(rp_events, Signal("error"))
  /\ rp_running' = rp_running
  /\ rp_pc' = "loop"
  /\ UNCHANGED <<rp_call, fail_count, sensor_regs, data_ready_args>>

\* run with self._fail_count = 0 after every call that returned registers
RegisterPoller_run_got_resets(regs) ==
  IF rp_call = "sensor"
  THEN /\ sensor_regs' = regs
       /\ rp_call' = "status"
       /\ rp_pc' = "write"
       /\ fail_count' = 0
       /\ UNCHANGED <<rp_events, data_ready_args, rp_running>>
  ELSE /\ fail_count' = 0
       /\ rp_events' = Append(rp_events, Signal("data_ready"))
       /\ data_ready_args' = << SubSeq(sensor_regs, 1, REG_SENSOR_TYPE_COUNT),
                                SubSeq(sensor_regs, REG_SENSOR_TYPE_COUNT + 1, Len(sensor_regs)),
                                regs >>
       /\ rp_pc' = "sleep"
       /\ UNCHANGED <<sensor_regs, rp_call, rp_running>>

\* _read_registers: the SerialException handler, and run going on from the
\* None it returns (continue)
RegisterPoller_read_registers_except ==
  /\ rp_events' = Append(rp_events, Signal("error"))
  /\ rp_running' = FALSE
  /\ rp_pc' = "loop"
  /\ UNCHANGED <<rp_call, fail_count, sensor_regs, data_ready_args>>

\* _read_registers: self.serial_port.write(req + crc)
RegisterPoller_read_registers_write ==
  /\ rp_pc = "write"
  /\ (Len(rp_log) < MaxPollCalls \/ rp_call = "status")
  /\ resp' = <<>>
  /\ \/ /\ rp_log' = Append(rp_log, PollEntry(rp_call, "pending"))
        /\ rp_pc' = "read"
        /\ UNCHANGED <<rp_running, rp_call, fail_count, sensor_regs, rp_events,
                       data_ready_args>>
     \/ /\ rp_log' = Append(rp_log, PollEntry(rp_call, "werr"))
        /\ RegisterPoller_read_registers_except
  /\ UNCHANGED <<rp_params, rp_stopped>>

\* _read_registers with the mutant's threshold
RegisterPoller_read_registers_failed_six ==
  /\ fail_count' = fail_count + 1
  /\ IF fail_count + 1 >= POLL_FAIL_LIMIT + 1
     THEN /\ rp_events' = Append(rp_events, Signal("connection_lost"))
          /\ rp_running' = FALSE
     ELSE UNCHANGED <<rp_events, rp_running>>
  /\ rp_pc' = "fail_sleep"
  /\ UNCHANGED <<rp_call, sensor_regs, data_ready_args>>

\* _read_registers: len(resp) < expected_len or not self._check_crc(resp)
RegisterPoller_read_registers_failed ==
  /\ fail_count' = fail_count + 1
  /\ IF fail_count + 1 >= POLL_FAIL_LIMIT
     THEN /\ rp_events' = Append(rp_events, Signal("connection_lost"))
          /\ rp_running' = FALSE
     ELSE UNCHANGED <<rp_events, rp_running>>
  /\ rp_pc' = "fail_sleep"
  /\ UNCHANGED <<rp_call, sensor_regs, data_ready_args>>

\* run with sensor_regs[REG_SENSOR_TYPE_COUNT:] taken for both arguments
DataReadyArgs_values_twice(sregs, status_regs) ==
  << SubSeq(sregs, REG_SENSOR_TYPE_COUNT + 1, Len(sregs)),
     SubSeq(sregs, REG_SENSOR_TYPE_COUNT + 1, Len(sregs)),
     status_regs >>

\* run: sensor_regs[:REG_SENSOR_TYPE_COUNT], sensor_regs[REG_SENSOR_TYPE_COUNT:],
\* status_regs
DataReadyArgs(sregs, status_regs) ==
  << SubSeq(sregs, 1, REG_SENSOR_TYPE_COUNT),
     SubSeq(sregs, REG_SENSOR_TYPE_COUNT + 1, Len(sregs)),
     status_regs >>

\* run: what follows a _read_registers call that returned regs
RegisterPoller_run_got(regs) ==
  IF rp_call = "sensor"
  THEN /\ sensor_regs' = regs
       /\ rp_call' = "status"
       /\ rp_pc' = "write"
       /\ UNCHANGED <<fail_count, rp_events, data_ready_args, rp_running>>
  ELSE /\ fail_count' = 0
       /\ rp_events' = Append(rp_events, Signal("data_ready"))
       /\ data_ready_args' = DataReadyArgs(sensor_regs, regs)
       /\ rp_pc' = "sleep"
       /\ UNCHANGED <<sensor_regs, rp_call, rp_running>>

\* _read_registers: resp = self.serial_port.read(expected_len) and the rest
RegisterPoller_read_registers_read ==
  /\ rp_pc = "read"
  /\ \/ \E r \in (IF rp_call = "sensor" THEN SensorReplies ELSE StatusReplies) :
          /\ resp' = r
          /\ IF Len(r) < 5 + Count(rp_call) * 2 \/ ~check_crc(r)
             THEN /\ rp_log' = SetRes(rp_log, "none")
                  /\ RegisterPoller_read_registers_failed
             ELSE /\ rp_log' = SetRes(rp_log, "regs")
                  /\ RegisterPoller_run_got(Regs(r, Count(rp_call)))
     \/ /\ rp_log' = SetRes(rp_log, "rerr")
        /\ resp' = resp
        /\ RegisterPoller_read_registers_except
  /\ UNCHANGED <<rp_params, rp_stopped>>

\* _read_registers: time.sleep(1) and return None; run: continue
RegisterPoller_read_registers_sleep ==
  /\ rp_pc = "fail_sleep"
  /\ rp_pc' = "loop"
  /\ UNCHANGED <<rp_params, rp_call, rp_running, fail_count, sensor_regs, resp, rp_log,
                 rp_events, data_ready_args, rp_stopped>>

\* run: time.sleep(1) at the end of a cycle
RegisterPoller_run_sleep ==
  /\ rp_pc = "sleep"
  /\ rp_pc' = "loop"
  /\ UNCHANGED <<rp_params, rp_call, rp_running, fail_count, sensor_regs, resp, rp_log,
                 rp_events, data_ready_args, rp_stopped>>

\* stop, called from the GUI thread
RegisterPoller_stop ==
  /\ ~rp_stopped
  /\ rp_pc # "done"
  /\ rp_running' = FALSE
  /\ rp_stopped' = TRUE
  /\ UNCHANGED <<rp_params, rp_pc, rp_call, fail_count, sensor_regs, resp, rp_log,
                 rp_events, data_ready_args>>

InitPoller ==
  /\ GuiIdle /\ selected_port
  /\ FwIdle /\ AcIdle /\ ExtIdle
  /\ rp_slave_id \in SlaveIds
  /\ rp_pc = "loop"
  /\ rp_call = ""
  /\ rp_running = TRUE
  /\ fail_count = 0
  /\ sensor_regs = <<>>
  /\ resp = <<>>
  /\ rp_log = <<>>
  /\ rp_events = <<>>
  /\ data_ready_args = <<>>
  /\ rp_stopped = FALSE

NextPoller ==
  \/ RegisterPoller_run_loop
  \/ RegisterPoller_read_registers_write
  \/ RegisterPoller_read_registers_read
  \/ RegisterPoller_read_registers_sleep
  \/ RegisterPoller_run_sleep
  \/ RegisterPoller_stop

SpecPoller == InitPoller /\ [][NextPoller]_vars

\* ------------------------------------------------------------------------
\* Observations on a poller run
\* ------------------------------------------------------------------------
PollCalls == 1..Len(rp_log)
CallFailed(k) == rp_log[k].res = "none"
CallRaised(k) == rp_log[k].res \in {"werr", "rerr"}
CallReturned(k) == rp_log[k].res = "regs"
CallReads == {k \in PollCalls : rp_log[k].res \in {"none", "regs", "rerr"}}
Emitted(sig) == {k \in 1..Len(rp_events) : rp_events[k].sig = sig}
PollTypeOK == rp_pc \in {"loop", "write", "read", "fail_sleep", "sleep", "done"}

\* Every read so far came back short or with a bad checksum.
AllReadsFailed == \A k \in PollCalls : rp_log[k].res \in {"none", "pending"}

\* C15: as long as every poll read is short or CRC-invalid the poller emits
\* no data_ready and makes no more than 5 read attempts; the fifth failure
\* emits connection_lost, once, and ends the loop with no further port I/O;
\* a run that ends earlier was stopped.
C15_FiveFailuresLoseConnection ==
  AllReadsFailed =>
    /\ Len(rp_log) <= 5
    /\ fail_count = Cardinality({k \in PollCalls : CallFailed(k)})
    /\ \A k \in PollCalls : rp_log[k].call = "sensor"
    /\ Emitted("data_ready") = {} /\ Emitted("error") = {}
    /\ Cardinality(Emitted("connection_lost")) = (IF fail_count = 5 THEN 1 ELSE 0)
    /\ fail_count = 5 => ~rp_running /\ rp_pc \in {"fail_sleep", "loop", "done"}
    /\ (rp_pc = "done" /\ ~rp_stopped) => fail_count = 5

C15_Witness ==
  /\ AllReadsFailed /\ rp_pc = "done" /\ ~rp_stopped
  /\ Len(rp_log) = 5 /\ fail_count = 5
  /\ Len(rp_events) = 1 /\ rp_events[1].sig = "connection_lost"
  /\ Len(resp) = 37 /\ ~check_crc(resp)

\* The last call that completed a cycle (0: none), the last call that
\* returned registers (0: none).
LastCycleEnd ==
  LET done == {k \in PollCalls : rp_log[k].call = "status" /\ CallReturned(k)}
  IN IF done = {} THEN 0 ELSE CHOOSE k \in done : \A j \in done : j <= k
LastReturned ==
  LET done == {k \in PollCalls : CallReturned(k)}
  IN IF done = {} THEN 0 ELSE CHOOSE k \in done : \A j \in done : j <= k

FailedSince(k0) == {k \in PollCalls : k > k0 /\ CallFailed(k)}

\* C16 as stated: the counter is the number of failed calls since the last
\* call that returned registers, so connection_lost follows 5 failed calls
\* with no successful call (sensor block or calibration-status block)
\* between the first and the fifth.
C16_ResetByEachSuccessfulCall ==
  /\ fail_count = Cardinality(FailedSince(LastReturned))
  /\ Emitted("connection_lost") # {} =>
       /\ Len(rp_log) >= 5
       /\ \A k \in (Len(rp_log) - 4)..Len(rp_log) : CallFailed(k)

\* C16: the counter is the number of failed calls since the last cycle in
\* which both calls returned registers (or since the start); connection_lost
\* is emitted once, by the fifth of them.
C16_ResetByEachCompleteCycle ==
  /\ fail_count = Cardinality(FailedSince(LastCycleEnd))
  /\ fail_count <= 5
  /\ Cardinality(Emitted("connection_lost")) = (IF fail_count = 5 THEN 1 ELSE 0)
  /\ Emitted("connection_lost") # {} =>
       /\ CallFailed(Len(rp_log))
       /\ \A k \in PollCalls : k > LastCycleEnd => ~(rp_log[k].call = "status" /\ CallReturned(k))

\* connection_lost by the fifth failed call, a sensor call that returned
\* registers lying between the first and the fifth.
C16_Witness ==
  /\ Emitted("connection_lost") # {}
  /\ LastCycleEnd = 0
  /\ \E k \in PollCalls :
       /\ CallReturned(k)
       /\ \E j \in PollCalls : j < k /\ CallFailed(j)

\* The registers held by the device with contents seed, as run hands them on.
DevRegs(seed, start_addr, count) == [i \in 1..count |-> DevReg(seed, start_addr + i - 1)]

C17_Inv ==
  /\ \A k \in PollCalls :
       /\ rp_log[k].call = "status" <=>
            (k > 1 /\ rp_log[k - 1].call = "sensor" /\ CallReturned(k - 1))
       /\ rp_log[k].call = "sensor" =>
            rp_log[k].start_addr = REG_SENSOR_TYPE_BASE /\ rp_log[k].count = 16
       /\ rp_log[k].call = "status" =>
            rp_log[k].start_addr = REG_CAL_STATUS_START /\ rp_log[k].count = 8
  /\ Cardinality(Emitted("data_ready")) =
       Cardinality({k \in PollCalls : rp_log[k].call = "status" /\ CallReturned(k)})
  /\ \A k \in Emitted("connection_lost") \cup Emitted("error") : k = Len(rp_events)

C17_Step ==
  /\ C17_Inv'
  /\ sensor_regs' # sensor_regs =>
       \E s \in DevSeeds :
         /\ resp' = ReadReply(s, REG_SENSOR_TYPE_BASE, 16)
         /\ sensor_regs' = DevRegs(s, REG_SENSOR_TYPE_BASE, 16)
  /\ rp_events' # rp_events /\ rp_events'[Len(rp_events')].sig = "data_ready" =>
       /\ rp_pc = "read" /\ rp_call = "status"
       /\ rp_log'[Len(rp_log')].call = "status" /\ rp_log'[Len(rp_log')].res = "regs"
       /\ \E s \in DevSeeds, t \in DevSeeds :
            /\ sensor_regs = DevRegs(s, REG_SENSOR_TYPE_BASE, 16)
            /\ resp' = ReadReply(t, REG_CAL_STATUS_START, 8)
            /\ data_ready_args' = << DevRegs(s, REG_SENSOR_TYPE_BASE, 8),
                                     DevRegs(s, REG_SENSOR_TYPE_BASE + 8, 8),
                                     DevRegs(t, REG_CAL_STATUS_START, 8) >>
  /\ data_ready_args' # data_ready_args =>
       rp_events' = Append(rp_events, Signal("data_ready"))

\* C17: data_ready is emitted only by the step in which the calibration-status
\* read (8 registers from REG_CAL_STATUS_START) succeeds after the sensor read
\* (16 registers from REG_SENSOR_TYPE_BASE) of the same cycle succeeded, and it
\* carries the register values of those two answers; a failed call is
\* followed by a sensor read; connection_lost and error are last events.
C17_DataReadyPerCompleteCycle == [][C17_Step]_vars

\* Two cycles completed on different register contents, a failed cycle
\* between them.
C17_Witness ==
  /\ Cardinality(Emitted("data_ready")) = 2
  /\ \E k \in PollCalls : CallFailed(k) /\ rp_log[k].call = "status"
  /\ data_ready_args = << DevRegs(1, REG_SENSOR_TYPE_BASE, 8),
                          DevRegs(1, REG_SENSOR_TYPE_BASE + 8, 8),
                          DevRegs(0, REG_CAL_STATUS_START, 8) >>

\* C18: a SerialException in the write or the read of a poll call makes the
\* poller emit error once; that call is its last port I/O, error its last
\* signal, and the loop ends.
C18_ErrorEndsPolling ==
  /\ \A k \in PollCalls : CallRaised(k) => k = Len(rp_log)
  /\ Cardinality(Emitted("error")) = Cardinality({k \in PollCalls : CallRaised(k)})
  /\ \A k \in Emitted("error") :
       /\ k = Len(rp_events)
       /\ ~rp_running
       /\ rp_pc \in {"loop", "done"}

C18_Witness ==
  /\ rp_pc = "done" /\ ~rp_stopped
  /\ Emitted("error") = {Len(rp_events)}
  /\ Emitted("data_ready") # {}
  /\ rp_log[Len(rp_log)].res = "rerr"
  /\ rp_log[Len(rp_log)].call = "status"

\* ------------------------------------------------------------------------
\* AutoConnectWorker (main.py): one run
\* ------------------------------------------------------------------------
AUTO_CONNECT_RESPONSE_LEN == 17

\* Stray bytes and settings frames the device may send during one run.
MaxStray == 2
MaxFrames == 2

\* Beacons one run may write.
MaxBeacons == 3

\* The six registers of the device's settings frame: baud rate / 100, data
\* bits, parity, stop bits, a register the worker does not use, USART id.
DevSettings == { <<1152, 8, 0, 1, 0, 5>>, <<560, 7, 2, 2, 0, 1>> }

\* The 17-byte settings frame: 3 header bytes, 6 big-endian registers, the
\* checksum, low byte first.
SettingsFrame(regs) ==
  WithCrc(<<1, 3, 12>> \o
          [j \in 1..12 |->
             LET v == regs[((j - 1) \div 2) + 1]
             IN IF j % 2 = 1 THEN v \div 256 ELSE v % 256])

BeaconFrames == {SettingsFrame(regs) : regs \in DevSettings}

\* A byte of line noise.
STRAY_BYTE == 255

\* _parse_regs
parse_regs(packet) ==
  LET regs == [i \in 1..6 |-> RegAt(packet, i - 1)] IN
  [baud |-> regs[1] * 100, bits |-> regs[2], parity |-> regs[3],
   stop |-> regs[4], usart_id |-> regs[6]]

NoSettings == [baud |-> 0, bits |-> 0, parity |-> 0, stop |-> 0, usart_id |-> 0]

AcSignal(sig, settings) == [sig |-> sig, settings |-> settings]

ac_params == <<fw_vars, gui_vars, rp_vars, ext_vars>>

\* run: serial.Serial(...) and reset_input_buffer
AutoConnectWorker_run_serial ==
  /\ ac_pc = "open"
  /\ \/ /\ ac_open' = TRUE
        /\ rx_buf' = <<>>
        /\ ac_pc' = "loop"
        /\ UNCHANGED ac_events
     \/ /\ ac_events' = Append(ac_events, AcSignal("error", NoSettings))
        /\ ac_pc' = "done"
        /\ UNCHANGED <<ac_open, rx_buf>>
  /\ UNCHANGED <<ac_params, ac_running, rx_stream, ac_data, ac_beacons, dev_sent>>

\* run: while self._running, ser.write(AUTO_CONNECT_CMD); ser.close() after
\* the loop
AutoConnectWorker_run_write ==
  /\ ac_pc = "loop"
  /\ IF ~ac_running
     THEN /\ ac_open' = FALSE
          /\ ac_pc' = "done"
          /\ UNCHANGED <<ac_beacons, ac_events>>
     ELSE \/ /\ ac_beacons < MaxBeacons
             /\ ac_beacons' = ac_beacons + 1
             /\ ac_pc' = "read"
             /\ UNCHANGED <<ac_open, ac_events>>
          \/ /\ ac_events' = Append(ac_events, AcSignal("error", NoSettings))
             /\ ac_open' = FALSE
             /\ ac_pc' = "done"
             /\ UNCHANGED ac_beacons
  /\ UNCHANGED <<ac_params, ac_running, rx_buf, rx_stream, ac_data, dev_sent>>

\* run with the length test alone
Accepts_any_17(data) == Len(data) >= AUTO_CONNECT_RESPONSE_LEN

\* run: len(data) >= AUTO_CONNECT_RESPONSE_LEN and self._check_crc(data)
Accepts(data) == Len(data) >= AUTO_CONNECT_RESPONSE_LEN /\ check_crc(data)

\* run: data = ser.read(AUTO_CONNECT_RESPONSE_LEN) and what follows it; a
\* SerialException of the read is not caught and ends run
AutoConnectWorker_run_data ==
  /\ ac_pc = "read"
  /\ \/ /\ ac_pc' = "crashed"
        /\ UNCHANGED <<ac_data, rx_buf, rx_stream, ac_open, ac_events>>
     \/ LET n == Min(AUTO_CONNECT_RESPONSE_LEN, Len(rx_buf))
            data == SubSeq(rx_buf, 1, n)
        IN /\ ac_data' = data
           /\ rx_buf' = SubSeq(rx_buf, n + 1, Len(rx_buf))
           /\ rx_stream' = rx_stream \o data
           /\ IF Accepts(data)
              THEN /\ ac_open' = FALSE
                   /\ ac_events' = Append(ac_events, AcSignal("finished", parse_regs(data)))
                   /\ ac_pc' = "done"
              ELSE /\ ac_pc' = "sleep"
                   /\ UNCHANGED <<ac_open, ac_events>>
  /\ UNCHANGED <<ac_params, ac_running, ac_beacons, dev_sent>>

\* run: time.sleep(remaining)
AutoConnectWorker_run_wait ==
  /\ ac_pc = "sleep"
  /\ ac_pc' = "loop"
  /\ UNCHANGED <<ac_params, ac_running, ac_open, rx_buf, rx_stream, ac_data,
                 ac_beacons, ac_events, dev_sent>>

\* stop, called from the GUI thread
AutoConnectWorker_stop ==
  /\ ac_running
  /\ ac_pc \notin {"done", "crashed"}
  /\ ac_running' = FALSE
  /\ UNCHANGED <<ac_params, ac_pc, ac_open, rx_buf, rx_stream, ac_data,
                 ac_beacons, ac_events, dev_sent>>

\* The device, or the line, puts a stray byte into the open port's input.
Device_stray ==
  /\ ac_open
  /\ dev_sent[1] < MaxStray
  /\ rx_buf' = Append(rx_buf, STRAY_BYTE)
  /\ dev_sent' = <<dev_sent[1] + 1, dev_sent[2]>>
  /\ UNCHANGED <<ac_params, ac_pc, ac_running, ac_open, rx_stream, ac_data,
                 ac_beacons, ac_events>>

\* The device sends a settings frame.
Device_frame ==
  /\ ac_open
  /\ dev_sent[2] < MaxFrames
  /\ \E f \in BeaconFrames : rx_buf' = rx_buf \o f
  /\ dev_sent' = <<dev_sent[1], dev_sent[2] + 1>>
  /\ UNCHANGED <<ac_params, ac_pc, ac_running, ac_open, rx_stream, ac_data,
                 ac_beacons, ac_events>>

InitDiscovery ==
  /\ GuiIdle /\ selected_port
  /\ FwIdle /\ RpIdle /\ ExtIdle
  /\ ac_pc = "open"
  /\ ac_running = TRUE
  /\ ac_open = FALSE
  /\ rx_buf = <<>>
  /\ rx_stream = <<>>
  /\ ac_data = <<>>
  /\ ac_beacons = 0
  /\ ac_events = <<>>
  /\ dev_sent = <<0, 0>>

NextDiscovery ==
  \/ AutoConnectWorker_run_serial
  \/ AutoConnectWorker_run_write
  \/ AutoConnectWorker_run_data
  \/ AutoConnectWorker_run_wait
  \/ AutoConnectWorker_stop
  \/ Device_stray
  \/ Device_frame

SpecDiscovery == InitDiscovery /\ [][NextDiscovery]_vars

AcEmitted(sig) == {k \in 1..Len(ac_events) : ac_events[k].sig = sig}
AcTypeOK == ac_pc \in {"open", "loop", "read", "sleep", "done", "crashed"}

\* The offsets in the bytes read so far at which a valid 17-byte settings
\* frame starts.
FrameWindows ==
  {j \in 0..(Len(rx_stream) - AUTO_CONNECT_RESPONSE_LEN) :
     LET w == SubSeq(rx_stream, j + 1, j + AUTO_CONNECT_RESPONSE_LEN)
     IN w[2] = 3 /\ check_crc(w)}

FirstFrame ==
  LET j == CHOOSE j \in FrameWindows : \A i \in FrameWindows : j <= i
  IN SubSeq(rx_stream, j + 1, j + AUTO_CONNECT_RESPONSE_LEN)

\* C19 as stated: the worker slides a 17-byte window over the bytes it
\* reads, so once they contain a valid frame, after any number of stray
\* bytes, finished has been emitted with the settings of that frame.
C19_SlidingWindowResync ==
  FrameWindows # {} =>
    /\ AcEmitted("finished") # {}
    /\ ac_events[Len(ac_events)].settings = parse_regs(FirstFrame)

\* CRC-16 of the two settings frames, as _calc_crc returns them.
CrcVector(body) ==
  IF body = <<1, 3, 12, 4, 128, 0, 8, 0, 0, 0, 1, 0, 0, 0, 5>> THEN 32337
  ELSE IF body = <<1, 3, 12, 2, 48, 0, 7, 0, 2, 0, 2, 0, 0, 0, 1>> THEN 18216
  ELSE 0 - 1

U16(hi, lo) == hi * 256 + lo

C20_Inv ==
  /\ Cardinality(AcEmitted("finished")) <= 1
  /\ \A k \in AcEmitted("finished") :
       /\ k = Len(ac_events)
       /\ ac_pc = "done" /\ ~ac_open
       /\ Len(ac_data) = 17
       /\ ac_data[16] + 256 * ac_data[17] = CrcVector(SubSeq(ac_data, 1, 15))
       /\ ac_events[k].settings =
            [baud |-> U16(ac_data[4], ac_data[5]) * 100,
             bits |-> U16(ac_data[6], ac_data[7]),
             parity |-> U16(ac_data[8], ac_data[9]),
             stop |-> U16(ac_data[10], ac_data[11]),
             usart_id |-> U16(ac_data[14], ac_data[15])]

C20_Step ==
  /\ C20_Inv'
  /\ AcEmitted("finished") # {} => ac_beacons' = ac_beacons /\ ac_events' = ac_events

\* C20: a run emits finished at most once, as its last signal, only for 17
\* bytes returned by one read whose last two bytes, low byte first, are the
\* CRC-16 of the first 15; the settings are the big-endian 16-bit fields at
\* offsets 3, 5, 7, 9 and 13 (baud = field * 100); no beacon is written
\* afterwards.
C20_FinishedOnceForValidFrame == [][C20_Step]_vars

\* finished for the 115200 baud frame, after a read that returned a stray
\* byte alone.
C20_Witness ==
  /\ AcEmitted("finished") # {}
  /\ ac_events[Len(ac_events)].settings =
       [baud |-> 115200, bits |-> 8, parity |-> 0, stop |-> 1, usart_id |-> 5]
  /\ ac_beacons = 2
  /\ Len(rx_stream) = 18

\* C21 as stated: a discovery run that ends on an I/O failure (the port
\* does not open, the beacon write or the response read raises) has emitted
\* exactly one error and no finished; a run emits at most one error, and
\* never both.
C21_IoFailureSignalsError ==
  /\ Cardinality(AcEmitted("error")) <= 1
  /\ AcEmitted("error") # {} => AcEmitted("finished") = {}
  /\ ac_pc = "crashed" =>
       Cardinality(AcEmitted("error")) = 1 /\ AcEmitted("finished") = {}

\* ------------------------------------------------------------------------
\* Pure helpers of UMVH and of the checksum, called on their own
\* ------------------------------------------------------------------------
\* UMVH.SWAP_1_2_ENABLED
SWAP_1_2_ENABLED == TRUE

\* _map_port_ui_to_device
map_port_ui_to_device(port) ==
  IF ~SWAP_1_2_ENABLED THEN port
  ELSE IF port = 1 THEN 2 ELSE IF port = 2 THEN 1 ELSE port

\* _map_port_device_to_ui that leaves every port where it is
map_port_device_to_ui_same(port) == port

\* _map_port_device_to_ui
map_port_device_to_ui(port) ==
  IF ~SWAP_1_2_ENABLED THEN port
  ELSE IF port = 1 THEN 2 ELSE IF port = 2 THEN 1 ELSE port

\* _swap_regs_for_ui: regs[0], regs[1] = regs[1], regs[0] on a copy
swap_regs_for_ui(regs) ==
  IF ~SWAP_1_2_ENABLED THEN regs
  ELSE IF Len(regs) >= 2
       THEN [regs EXCEPT ![1] = regs[2], ![2] = regs[1]]
       ELSE regs

\* a | b on non-negative integers
RECURSIVE Or(_, _)
Or(a, b) ==
  IF a = 0 THEN b
  ELSE IF b = 0 THEN a
  ELSE (IF a % 2 = 1 \/ b % 2 = 1 THEN 1 ELSE 0) + 2 * Or(a \div 2, b \div 2)

\* _write_calibration_register with the UI port packed as it is
BindValue_unmapped(mode, port, sensor) ==
  Or(Or((mode % 2) * 32768, (port % 16) * 16), sensor % 16)

\* _write_calibration_register:
\* ((mode & 0x1) << 15) | ((port_device & 0xF) << 4) | (sensor & 0xF)
BindValue(mode, port, sensor) ==
  Or(Or((mode % 2) * 32768, (map_port_ui_to_device(port) % 16) * 16), sensor % 16)

\* The arguments the helpers are called with.
CrcBytes == {0, 1, 65, 128, 255}
CrcData ==
  { <<>>, <<1, 3, 0, 10, 0, 8>> } \cup {<<a>> : a \in CrcBytes}
    \cup {<<a, b>> : a \in CrcBytes, b \in CrcBytes}
BitMasks == {1, 2, 4, 8, 16, 32, 64, 128}
MaxPortArg == 9
RegBlocks == {[i \in 1..n |-> base + i] : n \in 0..8, base \in {0, 100}}

\* what a helper call leaves alone
pf_params == <<fw_vars, gui_vars, rp_vars, ac_vars, ch_vars, cal_vars>>

\* d with one bit of byte k flipped
FlipBit(d, k, mask) == [d EXCEPT ![k] = Flip(@, mask)]

\* _calc_crc(d), _check_crc(d + crc), and _check_crc of the same packet with
\* one bit of d flipped (k = 0: d is empty, nothing to flip)
Call_check_crc ==
  /\ pf_fn = "check_crc" /\ pf_out = <<>>
  /\ LET d == pf_in[1]
         k == pf_in[2]
         crc == calc_crc(d)
         tail == <<crc % 256, crc \div 256>>
     IN pf_out' = << [crc |-> crc,
                      ok |-> check_crc(d \o tail),
                      ok_flipped |-> IF k = 0 THEN FALSE
                                     ELSE check_crc(FlipBit(d, k, pf_in[3]) \o tail)] >>
  /\ UNCHANGED <<pf_fn, pf_in, pf_params>>

\* _map_port_ui_to_device(p), _map_port_device_to_ui(p) and their compositions
Call_map_port ==
  /\ pf_fn = "map_port" /\ pf_out = <<>>
  /\ LET p == pf_in[1] IN
     pf_out' = << [to_device |-> map_port_ui_to_device(p),
                   to_ui |-> map_port_device_to_ui(p),
                   there_and_back |-> map_port_device_to_ui(map_port_ui_to_device(p)),
                   back_and_there |-> map_port_ui_to_device(map_port_device_to_ui(p)),
                   twice |-> map_port_ui_to_device(map_port_ui_to_device(p))] >>
  /\ UNCHANGED <<pf_fn, pf_in, pf_params>>

\* _swap_regs_for_ui(regs)
Call_swap_regs_for_ui ==
  /\ pf_fn = "swap_regs" /\ pf_out = <<>>
  /\ pf_out' = << swap_regs_for_ui(pf_in[1]) >>
  /\ UNCHANGED <<pf_fn, pf_in, pf_params>>

\* the value _write_calibration_register(mode, port, sensor) writes
Call_bind_value ==
  /\ pf_fn = "bind" /\ pf_out = <<>>
  /\ pf_out' = << BindValue(pf_in[1], pf_in[2], pf_in[3]) >>
  /\ UNCHANGED <<pf_fn, pf_in, pf_params>>

PfInputs ==
  [fn : {"check_crc"}, in : {<<d, k, m>> : d \in CrcData \ {<<>>}, k \in 1..6, m \in BitMasks}]
    \cup [fn : {"check_crc"}, in : {<< <<>>, 0, 1 >>}]
    \cup [fn : {"map_port"}, in : {<<p>> : p \in 0..MaxPortArg}]
    \cup [fn : {"swap_regs"}, in : {<<r>> : r \in RegBlocks}]
    \cup [fn : {"bind"}, in : {<<m, p, s>> : m \in 0..1, p \in 1..8, s \in 0..15}]

InitPure ==
  /\ GuiIdle /\ selected_port
  /\ FwIdle /\ RpIdle /\ AcIdle /\ ChIdle /\ CalIdle
  /\ \E c \in PfInputs :
       /\ c.fn = "check_crc" => c.in[2] <= Len(c.in[1])
       /\ pf_fn = c.fn
       /\ pf_in = c.in
  /\ pf_out = <<>>

NextPure ==
  \/ Call_check_crc
  \/ Call_map_port
  \/ Call_swap_regs_for_ui
  \/ Call_bind_value

SpecPure == InitPure /\ [][NextPure]_vars

Returned(fn) == pf_fn = fn /\ pf_out # <<>>

\* CRC-16 (initial value 0xFFFF, shifted right, polynomial 0xA001) of five
\* byte sequences.
CrcKnown(d) ==
  CASE d = <<>> -> 65535
    [] d = <<0>> -> 16575
    [] d = <<65>> -> 28799
    [] d = <<1, 128>> -> 32769
    [] d = <<255, 255>> -> 0
    [] d = <<1, 3, 0, 10, 0, 8>> -> 3684
    [] OTHER -> 0 - 1

\* C24: _check_crc accepts d followed by _calc_crc(d), low byte first, for
\* every d; _calc_crc is the CRC-16 with initial value 0xFFFF and polynomial
\* 0xA001; the packet with any single bit of d flipped is refused.
C24_ChecksumRoundTrip ==
  Returned("check_crc") =>
    /\ pf_out[1].ok
    /\ pf_in[2] > 0 => ~pf_out[1].ok_flipped
    /\ pf_out[1].crc \in 0..65535
    /\ CrcKnown(pf_in[1]) >= 0 => pf_out[1].crc = CrcKnown(pf_in[1])

C24_Witness ==
  /\ Returned("check_crc")
  /\ pf_in = << <<1, 128>>, 2, 128 >>
  /\ pf_out[1].crc = 32769

\* The swap of ports 1 and 2, written out.
Swapped(p) == IF p = 1 THEN 2 ELSE IF p = 2 THEN 1 ELSE p

\* C28: the two port mappings are the swap of 1 and 2, each undoes the
\* other and itself, and in a block of two or more per-port values
\* _swap_regs_for_ui puts the value of port p at the place of port map(p).
C28_PortMapInvolution ==
  /\ Returned("map_port") =>
       /\ pf_out[1].to_device = Swapped(pf_in[1])
       /\ pf_out[1].to_ui = Swapped(pf_in[1])
       /\ pf_out[1].there_and_back = pf_in[1]
       /\ pf_out[1].back_and_there = pf_in[1]
       /\ pf_out[1].twice = pf_in[1]
  /\ Returned("swap_regs") =>
       /\ Len(pf_out[1]) = Len(pf_in[1])
       /\ Len(pf_in[1]) >= 2 =>
            \A p \in 1..Len(pf_in[1]) : pf_out[1][Swapped(p)] = pf_in[1][p]
       /\ Len(pf_in[1]) < 2 => pf_out[1] = pf_in[1]

C28_Witness ==
  /\ Returned("swap_regs")
  /\ pf_in[1] = <<101, 102, 103, 104, 105, 106, 107, 108>>
  /\ pf_out[1] = <<102, 101, 103, 104, 105, 106, 107, 108>>

\* C30: the binding value has the mode in bit 15, the swapped port in bits
\* 4-7, the sensor code in bits 0-3 and zeros in bits 8-14, and no other
\* (mode, port, sensor) is packed to the same value.
C30_BindingPacked ==
  Returned("bind") =>
    LET v == pf_out[1] IN
    /\ v \in 0..65535
    /\ v \div 32768 = pf_in[1]
    /\ (v \div 16) % 16 = Swapped(pf_in[2])
    /\ v % 16 = pf_in[3]
    /\ (v \div 256) % 128 = 0
    /\ \A m \in 0..1, p \in 1..8, s \in 0..15 :
         BindValue(m, p, s) = v => <<m, p, s>> = pf_in

C30_Witness ==
  /\ Returned("bind")
  /\ pf_in = <<1, 1, 4>>
  /\ pf_out[1] = 32768 + 32 + 4

\* ------------------------------------------------------------------------
\* One register call on the line: RegisterPoller._read_registers,
\* UMVH._read_register, UMVH._write_register
\* ------------------------------------------------------------------------
\* struct.pack("<BBHH", a, b, h1, h2)
Pack_BBHH_little(a, b, h1, h2) == <<a, b, h1 % 256, h1 \div 256, h2 % 256, h2 \div 256>>

\* struct.pack(">BBHH", a, b, h1, h2)
Pack_BBHH(a, b, h1, h2) == <<a, b, h1 \div 256, h1 % 256, h2 \div 256, h2 % 256>>

\* req + crc.to_bytes(2, "little") of a read
ReadRequest(slave, start_addr, count) == WithCrc(Pack_BBHH(slave, 3, start_addr, count))

\* req + crc.to_bytes(2, "little") of a write
WriteRequest(slave, addr, value) == WithCrc(Pack_BBHH(slave, 6, addr, value))

\* _write_register taking any eight bytes for an acknowledgement
WriteAccepted_any_8(r) == Len(r) = 8

\* _write_register: len(resp) == 8 and recv_crc == calc_crc
WriteAccepted(r) == Len(r) = 8 /\ check_crc(r)

\* What the device's registers may hold when `count` of them are read.
ChValues(count) ==
  { [i \in 1..count |-> 256 * i + 7], [i \in 1..count |-> 65536 - i] }

\* The device's answer to a read: address, function, byte count, the
\* registers high byte first, checksum.
ReadAnswer(slave, vals) ==
  WithCrc(<<slave, 3, 2 * Len(vals)>> \o
          [j \in 1..(2 * Len(vals)) |->
             LET v == vals[(j + 1) \div 2]
             IN IF j % 2 = 1 THEN v \div 256 ELSE v % 256])

\* What serial_port.read may return after a read request: the answer,
\* nothing, the answer short of its last byte, the answer with a damaged
\* byte, the device's five-byte refusal.
ChReadReplies(slave, count) ==
  {ReadAnswer(slave, v) : v \in ChValues(count)}
    \cup { <<>>,
           SubSeq(ReadAnswer(slave, [i \in 1..count |-> i]), 1, 4 + 2 * count),
           Corrupt(ReadAnswer(slave, [i \in 1..count |-> i])),
           WithCrc(<<slave, 131, 2>>) }

\* What serial_port.read may return after a write request: the echo,
\* nothing, the echo short of its last byte, the echo with a damaged byte,
\* the device's five-byte refusal.
ChWriteReplies(slave, addr, value) ==
  { WriteRequest(slave, addr, value),
    <<>>,
    SubSeq(WriteRequest(slave, addr, value), 1, 7),
    Corrupt(WriteRequest(slave, addr, value)),
    WithCrc(<<slave, 134, 2>>) }

Ret(kind, val) == [kind |-> kind, val |-> val]

\* what a register call leaves alone
ch_params == <<ch_fn, ch_args, ch_port, fw_vars, gui_vars, ac_vars, pf_vars, cal_vars,
               rp_slave_id, rp_pc, rp_call, sensor_regs, resp, rp_log,
               data_ready_args, rp_stopped>>

\* _read_registers: except serial.SerialException
RegisterPoller_read_registers_raised ==
  /\ rp_events' = Append(rp_events, Signal("error"))
  /\ rp_running' = FALSE
  /\ ch_out' = <<Ret("none", 0)>>
  /\ ch_pc' = "done"
  /\ UNCHANGED fail_count

\* _read_registers: self.serial_port.write(req + crc.to_bytes(2, "little"))
RegisterPoller_read_registers_tx ==
  /\ ch_fn = "read_registers" /\ ch_pc = "call"
  /\ ch_tx' = Append(ch_tx, ReadRequest(ch_args.slave, ch_args.addr, ch_args.count))
  /\ \/ /\ ch_port = "open"
        /\ ch_pc' = "read"
        /\ UNCHANGED <<ch_out, rp_events, rp_running, fail_count>>
     \/ RegisterPoller_read_registers_raised
  /\ UNCHANGED <<ch_reads, ch_resp, ch_params>>

\* _read_registers: resp = self.serial_port.read(expected_len) and the rest
RegisterPoller_read_registers_rx ==
  /\ ch_fn = "read_registers" /\ ch_pc = "read"
  /\ ch_reads' = ch_reads + 1
  /\ \/ \E r \in ChReadReplies(ch_args.slave, ch_args.count) :
          /\ ch_resp' = r
          /\ ch_pc' = "done"
          /\ IF Len(r) < 5 + ch_args.count * 2 \/ ~check_crc(r)
             THEN /\ fail_count' = fail_count + 1
                  /\ IF fail_count + 1 >= POLL_FAIL_LIMIT
                     THEN /\ rp_events' = Append(rp_events, Signal("connection_lost"))
                          /\ rp_running' = FALSE
                     ELSE UNCHANGED <<rp_events, rp_running>>
                  /\ ch_out' = <<Ret("none", 0)>>
             ELSE /\ ch_out' = <<Ret("regs", Regs(r, ch_args.count))>>
                  /\ UNCHANGED <<fail_count, rp_events, rp_running>>
     \/ /\ RegisterPoller_read_registers_raised
        /\ UNCHANGED ch_resp
  /\ UNCHANGED <<ch_tx, ch_params>>

\* _read_register: the guard on self.serial_port and the write
UMVH_read_register_tx ==
  /\ ch_fn = "read_register" /\ ch_pc = "call"
  /\ IF ch_port = "none"
     THEN /\ ch_out' = <<Ret("none", 0)>>
          /\ ch_pc' = "done"
          /\ UNCHANGED ch_tx
     ELSE /\ ch_tx' = Append(ch_tx, ReadRequest(ch_args.slave, ch_args.addr, 1))
          /\ \/ /\ ch_port = "open"
                /\ ch_pc' = "read"
                /\ UNCHANGED ch_out
             \/ /\ ch_out' = <<Ret("none", 0)>>
                /\ ch_pc' = "done"
  /\ UNCHANGED <<ch_reads, ch_resp, ch_params, rp_events, rp_running, fail_count>>

\* _read_register: resp = self.serial_port.read(7) and the rest
UMVH_read_register_rx ==
  /\ ch_fn = "read_register" /\ ch_pc = "read"
  /\ ch_reads' = ch_reads + 1
  /\ ch_pc' = "done"
  /\ \/ \E r \in ChReadReplies(ch_args.slave, 1) :
          /\ ch_resp' = r
          /\ ch_out' = IF Len(r) # 7 THEN <<Ret("none", 0)>>
                       ELSE IF ~check_crc(r) THEN <<Ret("none", 0)>>
                       ELSE <<Ret("int", RegAt(r, 0))>>
     \/ /\ ch_out' = <<Ret("none", 0)>>
        /\ UNCHANGED ch_resp
  /\ UNCHANGED <<ch_tx, ch_params, rp_events, rp_running, fail_count>>

\* _write_register: the write; with self.serial_port None the attribute
\* access raises and nothing is returned
UMVH_write_register_tx ==
  /\ ch_fn = "write_register" /\ ch_pc = "call"
  /\ IF ch_port = "none"
     THEN /\ ch_out' = <<Ret("raised", "AttributeError")>>
          /\ ch_pc' = "done"
          /\ UNCHANGED ch_tx
     ELSE /\ ch_tx' = Append(ch_tx, WriteRequest(ch_args.slave, ch_args.addr, ch_args.value))
          /\ \/ /\ ch_port = "open"
                /\ ch_pc' = "read"
                /\ UNCHANGED ch_out
             \/ /\ ch_out' = <<Ret("bool", FALSE)>>
                /\ ch_pc' = "done"
  /\ UNCHANGED <<ch_reads, ch_resp, ch_params, rp_events, rp_running, fail_count>>

\* _write_register: resp = self.serial_port.read(8) and the rest
UMVH_write_register_rx ==
  /\ ch_fn = "write_register" /\ ch_pc = "read"
  /\ ch_reads' = ch_reads + 1
  /\ ch_pc' = "done"
  /\ \/ \E r \in ChWriteReplies(ch_args.slave, ch_args.addr, ch_args.value) :
          /\ ch_resp' = r
          /\ ch_out' = <<Ret("bool", WriteAccepted(r))>>
     \/ /\ ch_out' = <<Ret("bool", FALSE)>>
        /\ UNCHANGED ch_resp
  /\ UNCHANGED <<ch_tx, ch_params, rp_events, rp_running, fail_count>>

\* The calls followed.
ChSlaves == {1, 247}
ChReads == { [addr |-> 22, count |-> 8], [addr |-> 10, count |-> 16],
             [addr |-> 31, count |-> 8], [addr |-> 300, count |-> 1] }
ChAddrs == {10, 26, 43, 300}
ChWritten == {0, 258, 32804, 65535}

ChCalls ==
  { [fn |-> "read_registers", slave |-> s, addr |-> a.addr, count |-> a.count, value |-> 0] :
           s \in ChSlaves, a \in ChReads }
    \cup [fn : {"read_register"}, slave : ChSlaves, addr : ChAddrs, count : {1}, value : {0}]
    \cup [fn : {"write_register"}, slave : ChSlaves, addr : ChAddrs, count : {0}, value : ChWritten]

InitChannel ==
  /\ GuiIdle /\ selected_port
  /\ FwIdle /\ AcIdle /\ PfIdle /\ CalIdle
  /\ \E c \in ChCalls :
       /\ ch_fn = c.fn
       /\ ch_args = [slave |-> c.slave, addr |-> c.addr, count |-> c.count, value |-> c.value]
       /\ rp_running = (c.fn = "read_registers")
       /\ fail_count \in (IF c.fn = "read_registers" THEN {0, POLL_FAIL_LIMIT - 1} ELSE {0})
       /\ ch_port \in (IF c.fn = "read_registers" THEN {"open", "closed"}
                       ELSE {"none", "open", "closed"})
  /\ ch_pc = "call"
  /\ ch_tx = <<>>
  /\ ch_reads = 0
  /\ ch_resp = <<>>
  /\ ch_out = <<>>
  /\ rp_slave_id = 1
  /\ rp_pc = "done"
  /\ rp_call = ""
  /\ sensor_regs = <<>>
  /\ resp = <<>>
  /\ rp_log = <<>>
  /\ rp_events = <<>>
  /\ data_ready_args = <<>>
  /\ rp_stopped = FALSE

NextChannel ==
  \/ RegisterPoller_read_registers_tx
  \/ RegisterPoller_read_registers_rx
  \/ UMVH_read_register_tx
  \/ UMVH_read_register_rx
  \/ UMVH_write_register_tx
  \/ UMVH_write_register_rx

SpecChannel == InitChannel /\ [][NextChannel]_vars

ChReturned == ch_pc = "done" /\ ch_out # <<>>
ChTypeOK == ch_pc \in {"call", "read", "done"} /\ ch_reads \in 0..1

\* The checksum of six bytes as two bytes, low byte first.
CrcTail(body) == <<calc_crc(body) % 256, calc_crc(body) \div 256>>

\* C22: a register read writes address, 0x03, start and count high byte
\* first, checksum low byte first; one write and one read at most, both
\* made whenever a response was received; a response of 5 + 2 * count bytes
\* with a valid checksum gives its count big-endian values in order, and
\* anything else gives None.
C22_ReadRoundTrip ==
  ch_fn \in {"read_registers", "read_register"} =>
    LET n == ch_args.count
        good == ch_reads = 1 /\ Len(ch_resp) = 5 + 2 * n /\ check_crc(ch_resp)
    IN
    /\ Len(ch_tx) <= 1 /\ ch_reads <= 1 /\ ch_reads <= Len(ch_tx)
    /\ \A k \in 1..Len(ch_tx) :
         /\ SubSeq(ch_tx[k], 1, 6) =
              <<ch_args.slave, 3, ch_args.addr \div 256, ch_args.addr % 256,
                n \div 256, n % 256>>
         /\ SubSeq(ch_tx[k], 7, Len(ch_tx[k])) = CrcTail(SubSeq(ch_tx[k], 1, 6))
         /\ (ch_args.slave = 1 /\ ch_args.addr = 22 /\ n = 8) =>
              ch_tx[k] = <<1, 3, 0, 22, 0, 8, 165, 200>>
         /\ (ch_args.slave = 247 /\ ch_args.addr = 300 /\ n = 1) =>
              ch_tx[k] = <<247, 3, 1, 44, 0, 1, 80, 169>>
    /\ ChReturned =>
         /\ good =>
              /\ Len(ch_tx) = 1
              /\ ch_fn = "read_registers" =>
                   /\ ch_out[1].kind = "regs"
                   /\ Len(ch_out[1].val) = n
                   /\ \A i \in 1..n :
                        ch_out[1].val[i] = ch_resp[2 + 2 * i] * 256 + ch_resp[3 + 2 * i]
                   /\ \A v \in ChValues(n) :
                        ch_resp = ReadAnswer(ch_args.slave, v) => ch_out[1].val = v
              /\ ch_fn = "read_register" =>
                   /\ ch_out[1].kind = "int"
                   /\ ch_out[1].val = ch_resp[4] * 256 + ch_resp[5]
                   /\ \A v \in ChValues(1) :
                        ch_resp = ReadAnswer(ch_args.slave, v) => ch_out[1].val = v[1]
         /\ ~good => ch_out[1].kind = "none"

C22_Witness ==
  /\ ch_fn = "read_registers" /\ ChReturned
  /\ ch_args.slave = 1 /\ ch_args.addr = 22 /\ ch_args.count = 8
  /\ ch_tx = << <<1, 3, 0, 22, 0, 8, 165, 200>> >>
  /\ ch_out[1] = Ret("regs", <<263, 519, 775, 1031, 1287, 1543, 1799, 2055>>)

\* C23: a register write passes one function-6 frame (slave, 0x06, address
\* and value high byte first, checksum low byte first) to the port and
\* never a second one, reads once at most, and returns True exactly when
\* the response read is 8 bytes with a valid checksum; a short response, a
\* checksum mismatch and an exception of the port give False.
C23_WriteOnceNoRetry ==
  ch_fn = "write_register" =>
    /\ Len(ch_tx) <= 1 /\ ch_reads <= 1 /\ ch_reads <= Len(ch_tx)
    /\ \A k \in 1..Len(ch_tx) :
         /\ SubSeq(ch_tx[k], 1, 6) =
              <<ch_args.slave, 6, ch_args.addr \div 256, ch_args.addr % 256,
                ch_args.value \div 256, ch_args.value % 256>>
         /\ SubSeq(ch_tx[k], 7, Len(ch_tx[k])) = CrcTail(SubSeq(ch_tx[k], 1, 6))
         /\ (ch_args.slave = 1 /\ ch_args.addr = 26 /\ ch_args.value = 32804) =>
              ch_tx[k] = <<1, 6, 0, 26, 128, 36, 201, 214>>
    /\ ChReturned =>
         /\ ch_out[1] = Ret("bool", TRUE) <=>
              (ch_reads = 1 /\ Len(ch_resp) = 8 /\ check_crc(ch_resp))
         /\ ch_out[1] # Ret("bool", TRUE) =>
              ch_out[1] = (IF ch_port = "none" THEN Ret("raised", "AttributeError")
                           ELSE Ret("bool", FALSE))
         /\ ch_port # "none" => Len(ch_tx) = 1

C23_Witness ==
  /\ ch_fn = "write_register" /\ ChReturned
  /\ ch_args.slave = 1 /\ ch_args.addr = 26 /\ ch_args.value = 32804
  /\ ch_resp = <<1, 6, 0, 26, 128, 36, 201, 214>>
  /\ ch_out[1] = Ret("bool", TRUE)

\* a write refused for a damaged acknowledgement
C23_Witness_refused ==
  /\ ch_fn = "write_register" /\ ChReturned
  /\ Len(ch_resp) = 8 /\ ~check_crc(ch_resp)
  /\ ch_out[1] = Ret("bool", FALSE)

\* ------------------------------------------------------------------------
\* Calibration (main.py): the handlers of the calibration pages
\* ------------------------------------------------------------------------
REG_PORT_SENSOR_BIND == 26
REG_CAL_POINT_X1 == 27
REG_CAL_POINT_Y1 == 28
REG_CAL_POINT_X2 == 29
REG_CAL_POINT_Y2 == 30
REG_PASSWORD == 43

MaxCalClicks == 6
MaxCalPort == 3

\* What the operator may have selected or typed when a button is pressed:
\* a port (0: the combo box shows no number), a sensor code (NONE: none
\* selected), point values, a password text.
PortChoices == 0..MaxCalPort
SensorChoices == {NONE, 4}
XVals == {100, 200}
YVals == {50, 150}
PwdTexts == {"", "0x10", "abc", "70000"}

\* The device: the sensor type of each of its ports, and the two blocks of
\* sensor readings a poll may deliver (device order).
DevSensorType(d) == IF d = 1 THEN 2 ELSE IF d = 2 THEN 4 ELSE 6
PolledBlocks == { [d \in 1..8 |-> 100 + d], [d \in 1..8 |-> 200 + d] }

\* int(pwd, 0) on the texts above; NONE for ValueError
ParseInt(pwd) ==
  CASE pwd = "0x10" -> 16
    [] pwd = "70000" -> 70000
    [] OTHER -> NONE

\* _send_password up to its write: "skip" for an empty text, "bad" for a
\* text that is not a number or not in 0..0xFFFF, "write" otherwise
PasswordStep(pwd) ==
  IF pwd = "" THEN "skip"
  ELSE IF pwd = "abc" THEN "bad"
  ELSE IF ~(0 <= ParseInt(pwd) /\ ParseInt(pwd) <= 65535) THEN "bad"
  ELSE "write"

\* the write _send_password makes, if it makes one
PasswordWrites(pwd) ==
  IF PasswordStep(pwd) = "write" THEN << <<REG_PASSWORD, ParseInt(pwd)>> >> ELSE <<>>

\* the other revision's rule: x1 > x2 or y1 > y2
has_negative_slope_inequalities(x1, y1, x2, y2) ==
  IF NONE \in {x1, y1, x2, y2} THEN FALSE
  ELSE x1 > x2 \/ y1 > y2

\* _has_negative_slope
has_negative_slope(x1, y1, x2, y2) ==
  IF NONE \in {x1, y1, x2, y2} THEN FALSE
  ELSE IF x2 - x1 = 0 THEN FALSE
  ELSE (x2 - x1) * (y2 - y1) < 0

\* _get_sensor_type_from_device: address = REG_SENSOR_TYPE_BASE + (port - 1)
SensorTypeAddress(port) == REG_SENSOR_TYPE_BASE + (port - 1)

\* _get_latest_sensor_value
get_latest_sensor_value(latest, port) ==
  IF port = 0 THEN 0
  ELSE IF 0 <= port - 1 /\ port - 1 < Len(latest) THEN latest[port] ELSE 0

Acc(op, addr, val, ok) == [op |-> op, addr |-> addr, val |-> val, ok |-> ok]

\* Of the writes W a handler makes one after another, which one fails
\* (0: none); on a closed port the first one does.
FailAt(W) ==
  IF W = <<>> THEN {0}
  ELSE IF cal_link = "closed" THEN {1}
  ELSE 0..Len(W)

\* The writes of W issued when write f is the one that fails.
Issue(W, f) ==
  [k \in 1..(IF f = 0 THEN Len(W) ELSE f) |-> Acc("write", W[k][1], W[k][2], k # f)]

\* _handle_comm_error: the port is closed (the pages of the main window and
\* the poller are followed in SpecGui)
Cal_handle_comm_error == cal_link' = "closed"

\* _reset_calibration_state
Cal_reset_calibration_state ==
  /\ cal_kind' = ""
  /\ cal_port' = 0
  /\ cal_sensor' = NONE
  /\ two_point_data' = NoPoints
  /\ four_point_data' = NoPoints
  /\ spin_live' = 0
  /\ cal_page' = "page_16"

\* a button is pressed
CalClick ==
  /\ cal_clicks < MaxCalClicks
  /\ cal_clicks' = cal_clicks + 1

\* what the calibration handlers leave alone
cal_params == <<fw_vars, gui_vars, rp_vars, ac_vars, pf_vars, ch_vars>>

\* _start_two_point_calibration, _start_four_point_calibration,
\* _start_clear_calibration
Cal_start(kind, page, h) ==
  /\ cal_page = "page_16"
  /\ CalClick
  /\ cal_kind' = kind
  /\ cal_port' = 0
  /\ cal_sensor' = NONE
  /\ two_point_data' = NoPoints
  /\ four_point_data' = NoPoints
  /\ spin_live' = 0
  /\ cal_page' = page
  /\ cal_log' = <<>>
  /\ cal_last' = Last(h, "done", <<>>)
  /\ UNCHANGED <<polled, latest_sensor_values, cal_link, cal_params>>

UMVH_start_two_point_calibration == Cal_start("2pt", "page_17", "_start_two_point_calibration")
UMVH_start_four_point_calibration == Cal_start("4pt", "page_22", "_start_four_point_calibration")
UMVH_start_clear_calibration == Cal_start("clear", "page_23", "_start_clear_calibration")

\* _cancel_calibration
UMVH_cancel_calibration ==
  /\ cal_page # "page_16"
  /\ CalClick
  /\ Cal_reset_calibration_state
  /\ cal_last' = Last("_cancel_calibration", "done", <<>>)
  /\ UNCHANGED <<polled, latest_sensor_values, cal_link, cal_log, cal_params>>

\* _back_to_two_point_port_selection, _back_to_two_point_y1,
\* _back_to_two_point_y2, _four_point_back_to_select,
\* _four_point_back_to_values
UMVH_back ==
  /\ cal_page \in {"page_14", "page_18", "page_19", "page_20", "page_21"}
  /\ CalClick
  /\ cal_page' = CASE cal_page = "page_14" -> "page_17"
                   [] cal_page = "page_18" -> "page_15"
                   [] cal_page = "page_19" -> "page_18"
                   [] cal_page = "page_20" -> "page_22"
                   [] cal_page = "page_21" -> "page_20"
  /\ cal_last' = Last("_back", "done", <<>>)
  /\ UNCHANGED <<cal_kind, cal_port, cal_sensor, two_point_data, four_point_data, polled,
                 latest_sensor_values, spin_live, cal_link, cal_log, cal_params>>

\* update_sensor_table, the slot of RegisterPoller.data_ready, with
\* _update_live_sensor_widgets
UMVH_update_sensor_table ==
  /\ \E regs \in PolledBlocks :
       /\ regs # polled
       /\ polled' = regs
       /\ latest_sensor_values' = swap_regs_for_ui(regs)
       /\ spin_live' = IF cal_port = 0 THEN spin_live
                       ELSE get_latest_sensor_value(swap_regs_for_ui(regs), cal_port)
  /\ cal_link = "open"
  /\ UNCHANGED <<cal_kind, cal_page, cal_port, cal_sensor, two_point_data, four_point_data,
                 cal_link, cal_log, cal_last, cal_clicks, cal_params>>

\* _confirm_two_point_port: the sensor type is read from the device, then
\* _remember_calibration_target(0, port, sensor) writes the binding
UMVH_confirm_two_point_port_pressed ==
  /\ cal_page = "page_17"
  /\ CalClick
  /\ \E port \in PortChoices :
       LET h == "_confirm_two_point_port"
           addr == SensorTypeAddress(port)
           sensor == DevSensorType(addr - REG_SENSOR_TYPE_BASE + 1)
           W == << <<REG_PORT_SENSOR_BIND, BindValue(0, port, sensor)>> >>
       IN
       IF port = 0
       THEN /\ cal_last' = Last(h, "warning", <<>>)
            /\ UNCHANGED <<cal_page, cal_port, cal_sensor, cal_link, cal_log>>
       ELSE \/ /\ cal_log' = Append(cal_log, Acc("read", addr, NONE, FALSE))
               /\ Cal_handle_comm_error
               /\ cal_last' = Last(h, "comm_error", <<port>>)
               /\ UNCHANGED <<cal_page, cal_port, cal_sensor>>
            \/ /\ cal_link = "open"
               /\ \E f \in FailAt(W) :
                    /\ cal_log' = Append(cal_log, Acc("read", addr, sensor, TRUE)) \o Issue(W, f)
                    /\ IF f # 0
                       THEN /\ Cal_handle_comm_error
                            /\ cal_last' = Last(h, "comm_error", <<port>>)
                            /\ UNCHANGED <<cal_page, cal_port, cal_sensor>>
                       ELSE /\ cal_port' = port
                            /\ cal_sensor' = sensor
                            /\ cal_page' = "page_14"
                            /\ cal_last' = Last(h, "done", <<port>>)
                            /\ UNCHANGED cal_link
  /\ UNCHANGED <<cal_kind, two_point_data, four_point_data, polled, latest_sensor_values,
                 spin_live, cal_params>>

\* _two_point_submit_password
UMVH_two_point_submit_password ==
  /\ cal_page = "page_14"
  /\ cal_port # 0
  /\ CalClick
  /\ \E pwd \in PwdTexts :
       LET h == "_two_point_submit_password"
           P == PasswordWrites(pwd)
           W == P \o << <<REG_CAL_POINT_Y1, 0>>, <<REG_CAL_POINT_Y2, 0>> >>
                  \o (IF cal_sensor # NONE
                      THEN << <<REG_PORT_SENSOR_BIND, BindValue(0, cal_port, cal_sensor)>> >>
                      ELSE <<>>)
       IN
       IF PasswordStep(pwd) = "bad"
       THEN /\ cal_last' = Last(h, "bad_password", <<>>)
            /\ UNCHANGED <<cal_page, two_point_data, spin_live, cal_link, cal_log>>
       ELSE \E f \in FailAt(W) :
              /\ cal_log' = cal_log \o Issue(W, f)
              /\ two_point_data' = IF f # 0 /\ f <= Len(P) THEN two_point_data ELSE NoPoints
              /\ IF f # 0
                 THEN /\ Cal_handle_comm_error
                      /\ cal_last' = Last(h, "comm_error", <<>>)
                      /\ UNCHANGED <<cal_page, spin_live>>
                 ELSE /\ cal_page' = "page_15"
                      /\ spin_live' = get_latest_sensor_value(latest_sensor_values, cal_port)
                      /\ cal_last' = Last(h, "done", <<>>)
                      /\ UNCHANGED cal_link
  /\ UNCHANGED <<cal_kind, cal_port, cal_sensor, four_point_data, polled,
                 latest_sensor_values, cal_params>>

StoreY1(y, x) == [two_point_data EXCEPT !.y1 = y, !.x1 = x]
StoreY2(y, x) == [two_point_data EXCEPT !.y2 = y, !.x2 = x]

\* _two_point_commit_y1 (key 1, page_15) and _two_point_commit_y2
\* (key 2, page_18): the Y register is written, then y and the live x are
\* stored
Cal_two_point_commit(h, page, reg, next_page, key) ==
  /\ cal_page = page
  /\ cal_port # 0
  /\ CalClick
  /\ \E y \in YVals :
       LET W == << <<reg, y>> >> IN
       \E f \in FailAt(W) :
         /\ cal_log' = cal_log \o Issue(W, f)
         /\ IF f # 0
            THEN /\ Cal_handle_comm_error
                 /\ cal_last' = Last(h, "comm_error", <<>>)
                 /\ UNCHANGED <<cal_page, two_point_data, spin_live>>
            ELSE /\ two_point_data' = IF key = 1 THEN StoreY1(y, spin_live)
                                                   ELSE StoreY2(y, spin_live)
                 /\ cal_page' = next_page
                 /\ spin_live' = get_latest_sensor_value(latest_sensor_values, cal_port)
                 /\ cal_last' = Last(h, "done", <<>>)
                 /\ UNCHANGED cal_link
  /\ UNCHANGED <<cal_kind, cal_port, cal_sensor, four_point_data, polled,
                 latest_sensor_values, cal_params>>


UMVH_two_point_commit_y1_pressed ==
  Cal_two_point_commit("_two_point_commit_y1", "page_15", REG_CAL_POINT_Y1, "page_18", 1)

UMVH_two_point_commit_y2 ==
  Cal_two_point_commit("_two_point_commit_y2", "page_18", REG_CAL_POINT_Y2, "page_19", 2)

\* _two_point_finalize
UMVH_two_point_finalize ==
  /\ cal_page = "page_19"
  /\ cal_port # 0
  /\ CalClick
  /\ \E y1 \in (IF two_point_data.y1 = NONE THEN YVals ELSE {two_point_data.y1}),
        y2 \in (IF two_point_data.y2 = NONE THEN YVals ELSE {two_point_data.y2}),
        r1 \in (IF cal_link = "open" THEN XVals \cup {NONE} ELSE {NONE}),
        r2 \in (IF cal_link = "open" THEN XVals \cup {NONE} ELSE {NONE}),
        pwd \in PwdTexts :
       LET h == "_two_point_finalize"
           x1 == IF r1 = NONE THEN two_point_data.x1 ELSE r1
           x2 == IF r2 = NONE THEN two_point_data.x2 ELSE r2
           pts == <<x1, y1, x2, y2>>
           reads == << Acc("read", REG_CAL_POINT_X1, r1, r1 # NONE),
                       Acc("read", REG_CAL_POINT_X2, r2, r2 # NONE) >>
           stored == [two_point_data EXCEPT !.y1 = y1, !.y2 = y2]
           \* the y values are stored by now: the loop that writes the
           \* missing ones writes nothing
           W == PasswordWrites(pwd)
       IN
       IF has_negative_slope(x1, y1, x2, y2)
       THEN /\ cal_log' = cal_log \o reads
            /\ two_point_data' = stored
            /\ cal_last' = Last(h, "negative_slope", pts)
            /\ UNCHANGED <<cal_kind, cal_page, cal_port, cal_sensor, four_point_data,
                           spin_live, cal_link>>
       ELSE IF PasswordStep(pwd) = "bad"
       THEN /\ cal_log' = cal_log \o reads
            /\ two_point_data' = stored
            /\ cal_last' = Last(h, "bad_password", pts)
            /\ UNCHANGED <<cal_kind, cal_page, cal_port, cal_sensor, four_point_data,
                           spin_live, cal_link>>
       ELSE \E f \in FailAt(W) :
              /\ cal_log' = cal_log \o reads \o Issue(W, f)
              /\ IF f # 0
                 THEN /\ Cal_handle_comm_error
                      /\ two_point_data' = stored
                      /\ cal_last' = Last(h, "comm_error", pts)
                      /\ UNCHANGED <<cal_kind, cal_page, cal_port, cal_sensor,
                                     four_point_data, spin_live>>
                 ELSE /\ Cal_reset_calibration_state
                      /\ cal_last' = Last(h, "done", pts)
                      /\ UNCHANGED cal_link
  /\ UNCHANGED <<polled, latest_sensor_values, cal_params>>

\* _four_point_to_values: _remember_calibration_target(1, port, sensor_code)
UMVH_four_point_to_values ==
  /\ cal_page = "page_22"
  /\ CalClick
  /\ \E port \in PortChoices, sensor \in SensorChoices :
       LET h == "_four_point_to_values"
           W == << <<REG_PORT_SENSOR_BIND, BindValue(1, port, sensor)>> >>
       IN
       IF port = 0 \/ sensor = NONE
       THEN /\ cal_last' = Last(h, "warning", <<>>)
            /\ UNCHANGED <<cal_page, cal_port, cal_sensor, cal_link, cal_log>>
       ELSE \E f \in FailAt(W) :
              /\ cal_log' = cal_log \o Issue(W, f)
              /\ IF f # 0
                 THEN /\ Cal_handle_comm_error
                      /\ cal_last' = Last(h, "comm_error", <<port, sensor>>)
                      /\ UNCHANGED <<cal_page, cal_port, cal_sensor>>
                 ELSE /\ cal_port' = port
                      /\ cal_sensor' = sensor
                      /\ cal_page' = "page_20"
                      /\ cal_last' = Last(h, "done", <<port, sensor>>)
                      /\ UNCHANGED cal_link
  /\ UNCHANGED <<cal_kind, two_point_data, four_point_data, polled, latest_sensor_values,
                 spin_live, cal_params>>

\* the writes of X1, X2, Y1, Y2 in the order of the dict `values`
PointWrites(x1, y1, x2, y2) ==
  << <<REG_CAL_POINT_X1, x1>>, <<REG_CAL_POINT_X2, x2>>,
     <<REG_CAL_POINT_Y1, y1>>, <<REG_CAL_POINT_Y2, y2>> >>

\* _four_point_to_password
UMVH_four_point_to_password ==
  /\ cal_page = "page_20"
  /\ cal_port # 0
  /\ CalClick
  /\ \E x1 \in XVals, x2 \in XVals, y1 \in YVals, y2 \in YVals :
       LET h == "_four_point_to_password"
           W == PointWrites(x1, y1, x2, y2)
       IN
       \E f \in FailAt(W) :
         /\ cal_log' = cal_log \o Issue(W, f)
         /\ IF f # 0
            THEN /\ Cal_handle_comm_error
                 /\ cal_last' = Last(h, "comm_error", <<x1, y1, x2, y2>>)
                 /\ UNCHANGED <<cal_page, four_point_data>>
            ELSE /\ four_point_data' = [x1 |-> x1, y1 |-> y1, x2 |-> x2, y2 |-> y2]
                 /\ cal_page' = "page_21"
                 /\ cal_last' = Last(h, "done", <<x1, y1, x2, y2>>)
                 /\ UNCHANGED cal_link
  /\ UNCHANGED <<cal_kind, cal_port, cal_sensor, two_point_data, polled,
                 latest_sensor_values, spin_live, cal_params>>

\* _four_point_finalize
UMVH_four_point_finalize ==
  /\ cal_page = "page_21"
  /\ cal_port # 0
  /\ CalClick
  /\ \E pwd \in PwdTexts :
       LET h == "_four_point_finalize"
           d == four_point_data
           pts == <<d.x1, d.y1, d.x2, d.y2>>
           W == PointWrites(d.x1, d.y1, d.x2, d.y2) \o PasswordWrites(pwd)
       IN
       IF has_negative_slope(d.x1, d.y1, d.x2, d.y2)
       THEN /\ cal_last' = Last(h, "negative_slope", pts)
            /\ UNCHANGED <<cal_kind, cal_page, cal_port, cal_sensor, two_point_data,
                           four_point_data, spin_live, cal_link, cal_log>>
       ELSE \E f \in FailAt(W) :
              /\ cal_log' = cal_log \o Issue(W, f)
              /\ IF f # 0
                 THEN /\ Cal_handle_comm_error
                      /\ cal_last' = Last(h, "comm_error", pts)
                      /\ UNCHANGED <<cal_kind, cal_page, cal_port, cal_sensor,
                                     two_point_data, four_point_data, spin_live>>
                 ELSE IF PasswordStep(pwd) = "bad"
                 THEN /\ cal_last' = Last(h, "bad_password", pts)
                      /\ UNCHANGED <<cal_kind, cal_page, cal_port, cal_sensor,
                                     two_point_data, four_point_data, spin_live, cal_link>>
                 ELSE /\ Cal_reset_calibration_state
                      /\ cal_last' = Last(h, "done", pts)
                      /\ UNCHANGED cal_link
  /\ UNCHANGED <<polled, latest_sensor_values, cal_params>>

\* _clear_calibration_execute
UMVH_clear_calibration_execute ==
  /\ cal_page = "page_23"
  /\ CalClick
  /\ \E port \in PortChoices, sensor \in SensorChoices, pwd \in PwdTexts :
       LET h == "_clear_calibration_execute"
           W == << <<REG_PORT_SENSOR_BIND, BindValue(1, port, sensor)>> >>
                  \o PointWrites(0, 0, 0, 0) \o PasswordWrites(pwd)
           B == << <<REG_PORT_SENSOR_BIND, BindValue(0, port, sensor)>> >>
       IN
       IF port = 0 \/ sensor = NONE
       THEN /\ cal_last' = Last(h, "warning", <<>>)
            /\ UNCHANGED <<cal_kind, cal_page, cal_port, cal_sensor, two_point_data,
                           four_point_data, spin_live, cal_link, cal_log>>
       ELSE \E f \in FailAt(W) :
              IF f # 0
              THEN /\ cal_log' = cal_log \o Issue(W, f)
                   /\ Cal_handle_comm_error
                   /\ cal_last' = Last(h, "comm_error", <<port, sensor>>)
                   /\ UNCHANGED <<cal_kind, cal_page, cal_port, cal_sensor, two_point_data,
                                  four_point_data, spin_live>>
              ELSE IF PasswordStep(pwd) = "bad"
              THEN /\ cal_log' = cal_log \o Issue(W, 0)
                   /\ cal_last' = Last(h, "bad_password", <<port, sensor>>)
                   /\ UNCHANGED <<cal_kind, cal_page, cal_port, cal_sensor, two_point_data,
                                  four_point_data, spin_live, cal_link>>
              ELSE \E g \in {0, 1} :
                     /\ cal_log' = cal_log \o Issue(W, 0) \o Issue(B, g)
                     /\ IF g # 0 THEN Cal_handle_comm_error ELSE UNCHANGED cal_link
                     /\ Cal_reset_calibration_state
                     /\ cal_last' = Last(h, IF g # 0 THEN "comm_error" ELSE "done",
                                         <<port, sensor>>)
  /\ UNCHANGED <<polled, latest_sensor_values, cal_params>>

InitCal ==
  /\ GuiIdle /\ selected_port
  /\ FwIdle /\ RpIdle /\ AcIdle /\ PfIdle /\ ChIdle
  /\ CalIdle

NextCal ==
  \/ UMVH_start_two_point_calibration
  \/ UMVH_start_four_point_calibration
  \/ UMVH_start_clear_calibration
  \/ UMVH_cancel_calibration
  \/ UMVH_back
  \/ UMVH_update_sensor_table
  \/ UMVH_confirm_two_point_port_pressed
  \/ UMVH_two_point_submit_password
  \/ UMVH_two_point_commit_y1_pressed
  \/ UMVH_two_point_commit_y2
  \/ UMVH_two_point_finalize
  \/ UMVH_four_point_to_values
  \/ UMVH_four_point_to_password
  \/ UMVH_four_point_finalize
  \/ UMVH_clear_calibration_execute

SpecCal == InitCal /\ [][NextCal]_vars

CalTypeOK ==
  /\ cal_kind \in {"", "2pt", "4pt", "clear"}
  /\ cal_port \in 0..8
  /\ cal_clicks \in 0..(MaxCalClicks + 1)

Finalizers == {"_two_point_finalize", "_four_point_finalize"}
Rejected(res) == cal_last.h \in Finalizers /\ cal_last.res = res

\* One finalize step: the values it decided on, its verdict, what a refusal
\* leaves behind.
C25_Step ==
  (cal_clicks' = cal_clicks + 1 /\ cal_last'.h \in Finalizers) =>
    LET p == cal_last'.args
        refused == cal_last'.res = "negative_slope"
    IN
    /\ Len(p) = 4
    /\ cal_last'.h = "_four_point_finalize" =>
         p = <<four_point_data.x1, four_point_data.y1, four_point_data.x2, four_point_data.y2>>
    /\ cal_last'.h = "_two_point_finalize" =>
         /\ p[2] = two_point_data.y1 /\ p[4] = two_point_data.y2
         /\ \A k \in 1..2 :
              LET r == cal_log'[Len(cal_log) + k]
              IN p[2 * k - 1] = (IF r.ok THEN r.val
                                 ELSE IF k = 1 THEN two_point_data.x1 ELSE two_point_data.x2)
    /\ refused <=> ((\A i \in 1..4 : p[i] # NONE) /\ (p[3] - p[1]) * (p[4] - p[2]) < 0)
    /\ p = <<100, 50, 200, 150>> => ~refused
    /\ p = <<100, 150, 200, 50>> => refused
    /\ refused =>
         /\ SubSeq(cal_log', 1, Len(cal_log)) = cal_log
         /\ \A k \in (Len(cal_log) + 1)..Len(cal_log') : cal_log'[k].op = "read"
         /\ cal_kind' = cal_kind /\ cal_kind # ""
         /\ cal_port' = cal_port /\ cal_port # 0
         /\ cal_sensor' = cal_sensor
         /\ cal_page' = cal_page
         /\ two_point_data' = two_point_data
         /\ four_point_data' = four_point_data
         /\ spin_live' = spin_live

\* C25: a finalize handler refuses for negative slope exactly when all four
\* values are present and (x2-x1)*(y2-y1) < 0, the two-point and the
\* four-point one alike: (100,50,200,150) passes, (100,150,200,50) is
\* refused; the refusing handler writes no register and leaves the
\* calibration state as it was.
C25_NegativeSlopeRule == [][C25_Step]_vars

C25_Witness ==
  /\ cal_last = Last("_four_point_finalize", "negative_slope", <<100, 150, 200, 50>>)
  /\ cal_page = "page_21" /\ cal_port # 0

\* the same refusal by the two-point handler, and the accepted points
C25_Witness_two_point == cal_last = Last("_two_point_finalize", "negative_slope", <<100, 150, 200, 50>>)
C25_Witness_accepted == cal_last = Last("_four_point_finalize", "done", <<100, 50, 200, 150>>)

PointRegs == {REG_CAL_POINT_X1, REG_CAL_POINT_Y1, REG_CAL_POINT_X2, REG_CAL_POINT_Y2}

\* C26 as stated: when a finalize handler refuses a calibration for its
\* slope or for its password, no calibration-point register X1, Y1, X2, Y2
\* has been written for that calibration.
C26_NoPointWriteBeforeRejection ==
  (Rejected("negative_slope") \/ Rejected("bad_password")) =>
    \A k \in 1..Len(cal_log) :
      ~(cal_log[k].op = "write" /\ cal_log[k].addr \in PointRegs)

\* What holds instead: the refused values are on the device already.
C26_RefusedValuesWritten ==
  (Rejected("negative_slope") /\ cal_last.h = "_four_point_finalize") =>
    \A i \in 1..4 :
      \E k \in 1..Len(cal_log) :
        cal_log[k] = Acc("write", <<REG_CAL_POINT_X1, REG_CAL_POINT_Y1,
                                    REG_CAL_POINT_X2, REG_CAL_POINT_Y2>>[i],
                         cal_last.args[i], TRUE)

\* _clear_calibration_execute has written the binding with mode 1 and then
\* zero to X1, X2, Y1, Y2, all acknowledged, entry k being the last of them.
ClearZeroed(k) ==
  /\ k >= 5
  /\ cal_log[k - 4].op = "write" /\ cal_log[k - 4].addr = REG_PORT_SENSOR_BIND
  /\ cal_log[k - 4].ok /\ cal_log[k - 4].val >= 32768
  /\ cal_log[k - 3] = Acc("write", REG_CAL_POINT_X1, 0, TRUE)
  /\ cal_log[k - 2] = Acc("write", REG_CAL_POINT_X2, 0, TRUE)
  /\ cal_log[k - 1] = Acc("write", REG_CAL_POINT_Y1, 0, TRUE)
  /\ cal_log[k] = Acc("write", REG_CAL_POINT_Y2, 0, TRUE)

\* C27 as stated: once the four zero writes of a clear have succeeded, and
\* no later write has failed, the binding of the same port and sensor is
\* written with mode 0 afterwards.
C27_ClearRestoresBinding ==
  \A k \in 1..Len(cal_log) :
    (ClearZeroed(k) /\ \A j \in (k + 1)..Len(cal_log) : cal_log[j].ok) =>
      \E j \in (k + 1)..Len(cal_log) :
        /\ cal_log[j].op = "write"
        /\ cal_log[j].addr = REG_PORT_SENSOR_BIND
        /\ cal_log[j].val = cal_log[k - 4].val - 32768

\* The second half of C27 holds: a failed write is the last access of its
\* handler (the port is closed by _handle_comm_error).
C27_Step_nothing_after_failure ==
  cal_clicks' = cal_clicks + 1 =>
    \A k \in (Len(cal_log) + 1)..Len(cal_log') :
      (cal_log'[k].op = "write" /\ ~cal_log'[k].ok) => k = Len(cal_log')
C27_NothingAfterFailure == [][C27_Step_nothing_after_failure]_vars

TargetHandlers ==
  {"_confirm_two_point_port", "_four_point_to_values", "_clear_calibration_execute"}

\* the accesses a step has added to the log
Added == {k \in 1..Len(cal_log') : k > Len(cal_log)}

\* the binding written for UI port p carries map(p) in bits 4-7
C29_BindingStep ==
  (cal_clicks' = cal_clicks + 1 /\ cal_last'.h \in TargetHandlers /\ cal_last'.args # <<>>) =>
    \A k \in Added :
      (cal_log'[k].op = "write" /\ cal_log'[k].addr = REG_PORT_SENSOR_BIND) =>
        (cal_log'[k].val \div 16) % 16 = Swapped(cal_last'.args[1])

\* the sensor type read for UI port p is register
\* REG_SENSOR_TYPE_BASE + map(p) - 1
C29_SensorTypeStep ==
  (cal_clicks' = cal_clicks + 1 /\ cal_last'.h \in TargetHandlers /\ cal_last'.args # <<>>) =>
    \A k \in Added :
      cal_log'[k].op = "read" =>
        cal_log'[k].addr = REG_SENSOR_TYPE_BASE + Swapped(cal_last'.args[1]) - 1

\* the live value shown for UI port p is the polled value of device port
\* map(p)
C29_LiveStep ==
  (cal_port' # 0 /\ cal_page' \in {"page_15", "page_18", "page_19"}) =>
    spin_live' = polled'[Swapped(cal_port')]

\* C29 as stated: the binding, the sensor-type read and the live value of
\* UI port p all refer to device port map(p).
C29_SwapAtEveryBoundary == [][C29_BindingStep /\ C29_SensorTypeStep /\ C29_LiveStep]_vars

\* Two of the three boundaries do apply the swap.
C29_BindingAndLiveSwapped == [][C29_BindingStep /\ C29_LiveStep]_vars

\* ------------------------------------------------------------------------
\* The bytes of the firmware frames
\* ------------------------------------------------------------------------
\* n.to_bytes(2, "big")
Be16(n) == <<n \div 256, n % 256>>

\* _send_packet (main.py): the frame before its checksum
\* struct.pack(">BB", addr, func) + idx.to_bytes(2) + total.to_bytes(2) + payload
PacketBody(f) == <<f.addr, f.func>> \o Be16(f.idx) \o Be16(f.total) \o f.payload

\* FirmwareRequest.encode (firmware_update.py): packet_index twice, then
\* total_packets and the payload, after the unit and the function code
LibPacketBody(f) ==
  <<f.addr, f.func>> \o Be16(f.idx) \o Be16(f.idx) \o Be16(f.total) \o f.payload

\* The length of a chunk frame on the line: its body and crc.to_bytes(2, "little")
PacketLen(kind, f) ==
  (IF kind = "lib" THEN Len(LibPacketBody(f)) ELSE Len(PacketBody(f))) + 2

ChunkWrites == {k \in 1..Len(fw_log) : fw_log[k].op = "chunk"}

C31_PayloadWithinMax ==
  \A k \in ChunkWrites :
    /\ Len(fw_log[k].frame.payload) <= MAX_PAYLOAD_SIZE
    /\ PacketLen(fw_kind, fw_log[k].frame) <=
         (IF fw_kind = "lib" THEN MAX_PACKET_SIZE + 3 ELSE MAX_PACKET_SIZE + 1)

StartWrites == {k \in 1..Len(fw_log) : fw_log[k].op = "start"}

\* C32 as stated: the start-update frame of a FirmwareUpdateWorker run goes
\* to the bootloader address, the address its chunk frames go to.
C32_StartToBootloaderAddress ==
  fw_kind = "main" =>
    \A k \in StartWrites :
      /\ fw_log[k].frame.addr = BOOTLOADER_ID
      /\ \A j \in ChunkWrites : fw_log[j].frame.addr = fw_log[k].frame.addr

\* C32, amended: the start-update frame (0x2B) of a FirmwareUpdateWorker run
\* goes to the configured slave id and every chunk frame (0x2A) of the run
\* to BOOTLOADER_ID; the two addresses are the same exactly when the
\* configured slave id is BOOTLOADER_ID.
C32_StartToSlaveChunksToBootloader ==
  fw_kind = "main" =>
    /\ \A k \in StartWrites :
         /\ fw_log[k].frame.addr = slave_id
         /\ fw_log[k].frame.func = 43
         /\ SubSeq(PacketBody(fw_log[k].frame), 1, 2) = <<slave_id, 43>>
    /\ \A j \in ChunkWrites :
         /\ fw_log[j].frame.addr = 1
         /\ fw_log[j].frame.func = 42
         /\ StartWrites # {} /\ \A k \in StartWrites : k < j
    /\ \A k \in StartWrites, j \in ChunkWrites :
         (fw_log[k].frame.addr = fw_log[j].frame.addr) <=> (slave_id = BOOTLOADER_ID)

C32_Witness ==
  /\ fw_kind = "main" /\ slave_id = 5
  /\ \E k \in StartWrites : fw_log[k].frame.addr = 5
  /\ \E j \in ChunkWrites : fw_log[j].frame.addr = 1 /\ fw_log[j].frame.idx = 2

Ops(log) == [k \in 1..Len(log) |-> log[k].op]
ProgressEmitted == \E k \in 1..Len(fw_events) : fw_events[k].sig = "progress"

\* The step of run that finds the chunk loop of an empty image exhausted.
C38_Step ==
  (fw_kind \in {"main", "boot"} /\ fw_file = <<>> /\ fw_pc = "loop" /\ fw_pc' # fw_pc) =>
    /\ total_packets = 0 /\ firmware_data = <<>>
    /\ fw_pc' = "done"
    /\ fw_events = <<>>
    /\ fw_events' = <<Finished(TRUE, port_cfg')>>
    /\ IF fw_kind = "main"
       THEN /\ Ops(fw_log) = <<"start", "switch">>
            /\ fw_log[1].frame = Frame(slave_id, FUNC_CODE_START, 0, 0, <<>>)
            /\ fw_log[1].res = "read" /\ StartAck(fw_log[1].n)
            /\ fw_log[2].res = "ok"
            /\ port_cfg = DEFAULT_CFG /\ orig_cfg = pre_cfg
            /\ Ops(fw_log') = <<"start", "switch", "restore">>
            /\ fw_log'[3].res = "ok" => port_cfg' = pre_cfg
       ELSE /\ fw_log = <<>> /\ fw_log' = <<>>
            /\ ser_open /\ ~ser_open'

\* C38: for an empty image (N = 0) a FirmwareUpdateWorker run whose start
\* frame is acknowledged and whose port accepts the update configuration
\* sends the start frame, waits, switches and restores the link
\* configuration, transmits no chunk frame, emits no progress event and ends
\* with finished(True), stop() or not; a BootloaderUpdateWorker run that
\* opened the port and read the file ends with finished(True), the port
\* closed and nothing written to it.
C38_EmptyImageSucceeds == [][C38_Step]_vars

\* C38, the states of a run on an empty image: no chunk frame, no progress,
\* and finished(True) only at the end of the whole sequence.
C38_EmptyImageNoChunk ==
  (fw_kind \in {"main", "boot"} /\ fw_file = <<>>) =>
    /\ ChunkWrites = {}
    /\ ~ProgressEmitted
    /\ Len(fw_events) <= 1
    /\ fw_kind = "boot" => fw_log = <<>>
    /\ (fw_events # <<>> /\ fw_events[1].ok) =>
         /\ fw_pc = "done"
         /\ fw_kind = "main" => Ops(fw_log) = <<"start", "switch", "restore">>

C38_Witness ==
  /\ fw_kind = "main" /\ fw_file = <<>> /\ fw_pc = "done"
  /\ ~fw_running
  /\ fw_events = <<Finished(TRUE, pre_cfg)>>
  /\ Ops(fw_log) = <<"start", "switch", "restore">>
  /\ pre_cfg # DEFAULT_CFG

C38_Witness_boot ==
  /\ fw_kind = "boot" /\ fw_file = <<>> /\ fw_pc = "done"
  /\ fw_events = <<Finished(TRUE, port_cfg)>>
  /\ fw_log = <<>> /\ ~ser_open

\* The chunk phase as a function of the image and of the device's answers
\* (TRUE: the attempt was acknowledged): chunk i + 1 is sent until it is
\* acknowledged, at most MAX_RETRIES times, then chunk i + 2.
RECURSIVE ChunkPhase(_, _, _, _, _)
ChunkPhase(image, acks, k, i, a) ==
  LET total == TotalPackets(Len(image)) IN
  IF i >= total THEN [tx |-> <<>>, result |-> "ok", used |-> k - 1]
  ELSE IF a >= MAX_RETRIES THEN [tx |-> <<>>, result |-> "fail", used |-> k - 1]
  ELSE IF k > Len(acks) THEN [tx |-> <<>>, result |-> "more", used |-> k - 1]
  ELSE LET k1 == k + 1
           i1 == IF acks[k] THEN i + 1 ELSE i
           a1 == IF acks[k] THEN 0 ELSE a + 1
           rest == IF k1 > 0 /\ i1 >= 0 /\ a1 >= 0
                   THEN ChunkPhase(image, acks, k1, i1, a1)
                   ELSE [tx |-> <<>>, result |-> "more", used |-> 0] IN
       [tx |-> <<[idx |-> i + 1, total |-> total, payload |-> Chunk(image, i)]>> \o rest.tx,
        result |-> rest.result,
        used |-> rest.used]

IsAnsweredChunk(e) == e.op = "chunk" /\ e.res # "pending"
AnsweredChunks == SelectSeq(fw_log, IsAnsweredChunk)

\* len(resp) >= 4 in _send_packet, a true result of client.execute
Acked(e) == (e.res = "read" /\ PacketAck(e.n)) \/ e.res = "ok"

ChunkAcks == [k \in 1..Len(AnsweredChunks) |-> Acked(AnsweredChunks[k])]
ChunkTx ==
  [k \in 1..Len(AnsweredChunks) |->
     [idx |-> AnsweredChunks[k].frame.idx,
      total |-> AnsweredChunks[k].frame.total,
      payload |-> AnsweredChunks[k].frame.payload]]

FwRunOver == fw_pc \in {"done", "crashed"}

\* The transmissions and the result of the run are those of ChunkPhase.
FollowsChunkPhase ==
  LET ref == ChunkPhase(fw_file, ChunkAcks, 1, 0, 0) IN
  /\ ChunkTx = ref.tx
  /\ ref.used = Len(ChunkAcks)
  /\ \A k \in ChunkWrites : fw_log[k].frame.addr = BOOTLOADER_ID
  /\ (FwRunOver /\ ChunkWrites # {}) =>
       /\ Cardinality(FinishedPos) = 1
       /\ \A p \in FinishedPos :
            /\ fw_events[p].ok => ref.result = "ok"
            /\ stop_idx = -1 => (fw_events[p].ok <=> ref.result = "ok")
       /\ stop_idx = -1 => ref.result # "more"

\* C37 as stated: BootloaderUpdateWorker, the chunk phase of
\* FirmwareUpdateWorker and send_firmware with skip_start=True perform, for
\* the same image, device address 1 and the same device answers, the same
\* chunk transmissions (index, totalChunks, payload, attempts) and end with
\* the same result.
C37_ChunkPhasesEquivalent ==
  (\/ fw_kind \in {"main", "boot"}
   \/ fw_kind = "lib" /\ skip_start /\ slave_id = BOOTLOADER_ID) => FollowsChunkPhase

\* C37 for the two workers of main.py alone.
C37_MainBootEquivalent == fw_kind \in {"main", "boot"} => FollowsChunkPhase

\* C37 for send_firmware while client.execute returns.
C37_LibEquivalentUnlessRaise ==
  (fw_kind = "lib" /\ skip_start /\ slave_id = BOOTLOADER_ID /\ fw_pc # "crashed")
    => FollowsChunkPhase

\* C36 as stated: whenever AutoConnectWorker.run has ended after opening the
\* port (success, stop(), beacon write error, read error) the worker's port
\* handle is closed, and finished is emitted only with the handle closed.
C36_PortReleasedOnTermination ==
  /\ ac_pc \in {"done", "crashed"} => ~ac_open
  /\ AcEmitted("finished") # {} => ~ac_open

\* C36 on the paths that return from run: success, stop() and the failing
\* beacon write all close the handle.
C36_ReleasedWhenRunReturns ==
  /\ ac_pc = "done" => ~ac_open
  /\ AcEmitted("finished") # {} => ~ac_open /\ ac_pc = "done"
  /\ ac_pc = "crashed" => ac_open

\* ------------------------------------------------------------------------
\* stop() on a running worker
\* ------------------------------------------------------------------------
\* One worker of the four kinds at a time: a firmware run, a poller or a
\* discovery run, with stop() called at any moment.
InitStop == InitFw \/ InitPoller \/ InitDiscovery

NextStop == NextFw \/ NextPoller \/ NextDiscovery

\* The steps of the worker threads themselves; stop() and the device are
\* the environment.
FwThreadStep == NextFw /\ fw_running' = fw_running
RpThreadStep == NextPoller /\ rp_stopped' = rp_stopped
AcThreadStep ==
  \/ AutoConnectWorker_run_serial
  \/ AutoConnectWorker_run_write
  \/ AutoConnectWorker_run_data
  \/ AutoConnectWorker_run_wait

\* Every worker runs in a QThread of its own that the scheduler keeps
\* running, and every read returns within the port's timeout.
SpecStop ==
  /\ InitStop /\ [][NextStop]_vars
  /\ WF_vars(FwThreadStep) /\ WF_vars(RpThreadStep) /\ WF_vars(AcThreadStep)

\* After stop() no loop test lets another beacon, poll cycle or chunk begin:
\* the one in progress (a chunk with its retries, a cycle with its second
\* request) is the last.
C33_Step ==
  /\ ~ac_running => ac_beacons' = ac_beacons
  /\ (rp_stopped /\ rp_pc \in {"loop", "sleep", "fail_sleep"}) => rp_pc' # "write"
  /\ rp_stopped => Len(rp_log') <= Len(rp_log) + (IF rp_call = "sensor" /\ rp_pc # "loop" THEN 2 ELSE 1)
  /\ (fw_kind \in {"main", "boot"} /\ ~fw_running /\ fw_pc = "loop") => fw_pc' # "pkt_write"

StoppedChunkBound ==
  (fw_kind \in {"main", "boot"} /\ stop_idx >= 0) =>
    \A k \in ChunkWrites : fw_log[k].frame.idx <= stop_idx

\* C33: after stop() on AutoConnectWorker, RegisterPoller,
\* FirmwareUpdateWorker or BootloaderUpdateWorker the run loop eventually
\* exits, and no beacon, poll cycle or firmware chunk is begun by a loop test
\* that follows the call (at most the one in progress, with its retries, is
\* completed).
C33_StopIsLive ==
  /\ [][C33_Step]_vars
  /\ []StoppedChunkBound
  /\ (fw_kind \in {"main", "boot"} /\ ~fw_running) ~> (fw_pc = "done")
  /\ rp_stopped ~> (rp_pc = "done")
  /\ (~ac_running) ~> (ac_pc \in {"done", "crashed"})

\* stop() during the retries of chunk 1 of 2: the chunk is completed and the
\* run ends without chunk 2.
C33_Witness ==
  /\ fw_kind = "boot" /\ fw_pc = "done" /\ stop_idx = 1 /\ total_packets = 2
  /\ \E k \in ChunkWrites : fw_log[k].frame.idx = 1 /\ Acked(fw_log[k])
  /\ fw_events[Len(fw_events)] = Finished(FALSE, port_cfg)

C33_Witness_poller ==
  /\ rp_stopped /\ rp_pc = "done"
  /\ Len(rp_log) = 2 /\ rp_log[2].call = "status"
  /\ rp_events = <<Signal("data_ready")>>

C33_Witness_discovery ==
  /\ ~ac_running /\ ac_pc = "done" /\ ac_beacons = 2 /\ ~ac_open
  /\ ac_events = <<>>

\* The RegisterPoller objects whose run has not returned.
RunningPollers == {w \in WorkerIds : workers[w].type = "poller"}

\* C34 as stated: at most one RegisterPoller loop is running at any time,
\* and it is the one self.poller refers to, so that stop_polling stops
\* every running poller.
C34_SinglePoller ==
  /\ Cardinality(RunningPollers) <= 1
  /\ \A w \in RunningPollers : poller = w

\* A step of poller w that writes to or reads from its serial handle.
PollerIo(w) ==
  /\ workers[w].type = "poller"
  /\ workers'[w].st # workers[w].st
  /\ workers[w].st = "loop" => workers[w].running

C35_Step ==
  \A w \in WorkerIds :
    PollerIo(w) => /\ h_open[workers[w].h]
                   /\ workers[w].h = serial_port

\* C35 as stated: a RegisterPoller never performs I/O on a serial handle the
\* GUI has closed or replaced; whatever closes or replaces self.serial_port
\* has stopped the poller and waited for its thread first.
C35_NoPollerIoOnClosedPort == [][C35_Step]_vars

LiveWorkers(ws) == {w \in WorkerIds : ws[w].st # "unused"}

\* The last step of reset_application_state.
ResetReturns ==
  /\ gui_handler = "reset_application_state" /\ At("reset_close")
  /\ gui_todo' # gui_todo

\* A completion callback runs: update_finished or boot_update_finished
\* taken from the queue, _finish_success, _finish_failure or
\* _boot_finish_reset fired by its timer.
CompletionCallback ==
  \/ /\ gui_queue # <<>>
     /\ Head(gui_queue) \in {"update_ok", "update_failed", "boot_update_finished"}
     /\ gui_queue' = Tail(gui_queue)
  \/ timers # <<>> /\ timers' = Tail(timers)

C39_Step ==
  /\ ResetReturns =>
       /\ LiveWorkers(workers') = {}
       /\ serial_port' = 0
       /\ \A h \in HandleIds : ~h_open'[h]
  /\ (CompletionCallback /\ serial_port = 0) =>
       /\ LiveWorkers(workers') \subseteq LiveWorkers(workers)
       /\ serial_port' = 0
       /\ h_open' = h_open

\* C39 as stated: when reset_application_state returns every discovery,
\* poller and update worker loop has terminated and the serial handle is
\* closed and cleared; with no connection made since, a completion callback
\* (update_finished, _finish_success, _finish_failure, _boot_finish_reset)
\* starts no worker and touches no port.
C39_ResetLeavesNothingRunning == [][C39_Step]_vars

\* C39 for the workers the GUI still refers to: reset has waited for each of
\* them, the port is closed and cleared, and a callback without a port
\* starts nothing.
C39_Step_referenced ==
  /\ ResetReturns =>
       /\ ~Live(worker) /\ ~Live(updater) /\ ~Live(bl_updater) /\ ~Live(poller)
       /\ serial_port' = 0 /\ poller' = 0 /\ worker' = 0 /\ updater' = 0 /\ bl_updater' = 0
       /\ serial_port # 0 => ~h_open'[serial_port]
  /\ (CompletionCallback /\ serial_port = 0) =>
       /\ LiveWorkers(workers') \subseteq LiveWorkers(workers)
       /\ serial_port' = 0
       /\ h_open' = h_open

C39_ResetStopsReferencedWorkers == [][C39_Step_referenced]_vars

====
